---------------------------- MODULE Spec2Model ----------------------------
(***************************************************************************)
(* State-machine model of the Socket.IO signaling / matchmaking server of  *)
(* src/server/server.js (lines 1-354).                                     *)
(*                                                                         *)
(* Encoding decisions:                                                     *)
(*  - socket ids are handed out by a counter (nextSocket); a socket id is  *)
(*    never reused.  `connected` is io.sockets.sockets.                    *)
(*  - generateId() / generateToken() are random and taken to be            *)
(*    collision free: a new user gets any id that was never handed out    *)
(*    (usedIds), so the order of two ids is independent of the order in    *)
(*    which their users were created.  A token is minted together with     *)
(*    its user id and stays bound to it, so the token of user u is         *)
(*    represented by the number u; tokenToUser[t].userId is still stored.  *)
(*  - generateRoomId() is random: rooms are numbered by a counter, which   *)
(*    is also the insertion order of the activeRooms Map.                  *)
(*  - JS null is Null (0); ids start at 1.                                 *)
(*  - time is discrete.  Tick advances the clock by one unit; a token      *)
(*    timer and a room reaper carry the number of ticks left.  joinTime    *)
(*    is kept relative to the clock: a waiting entry is `fresh` while the  *)
(*    clock still shows the Date.now() it was stamped with.                *)
(*  - `sent` is the set of frames emitted by the last step, `last` names   *)
(*    the last step.                                                       *)
(*  - userConnections, entry.lastSeen, room.created and the audio/video    *)
(*    flags are written but never read by the server and are left out.     *)
(***************************************************************************)
EXTENDS Integers, Sequences, FiniteSets, TLC

\* ------------------------------------------------------------------ bounds
\* connections one run accepts: with every kind of frame, and in the two wider regimes
MaxSockets == 2
CrowdSockets == 3
MaxRooms == 2
\* reconnect_user frames the server accepts in one run
MaxRebinds == 1
\* ROOM_RECONNECT_TTL_MS counted in clock ticks
TtlTicks == 2
\* the extra 1000 ms of the room reaper, counted in clock ticks
ReaperExtraTicks == 1
\* largest joinTime handed to determineInitiator when it is applied on its own
MaxJoinTime == 4
Null == 0
\* entry.cleanupTimer === null
NoTimer == -1

SocketIds == 1..CrowdSockets
UserIds == 1..CrowdSockets
RoomIds == 1..MaxRooms
\* a token the server never minted
BogusToken == CrowdSockets + 1
\* The clients of one run: "pair" sends every kind of frame over at most MaxSockets
\* connections; "crowd", "rebind" and "switch" open up to CrowdSockets connections and
\* leave out the frames named below.
Regimes == {"pair", "crowd", "rebind", "switch"}
SignalKinds == {"offer", "answer", "ice-candidate"}
Payload == "X"

VARIABLES
    connected,      \* io.sockets.sockets: ids of the open sockets
    nextSocket,     \* id the next connection gets
    sockUser,       \* open socket id -> socket.userId
    usedIds,        \* user ids (= tokens) generateId() has handed out
    tokenToUser,    \* token -> [userId, socketId, roomId, cleanupTimer]
    waitingUsers,   \* userId -> [socketId, fresh]
    queue,          \* FIFO of waiting user ids
    activeRooms,    \* roomId -> [user1, user2], each [id, socketId, initiator]
    nextRoom,       \* id the next room gets
    userCount,      \* let userCount
    rebinds,        \* reconnect_user frames accepted so far
    reapers,        \* pending setTimeout(cleanupRoomIfBothDisconnected): <<[room, due, user]>>,
                    \* user being the socket.userId of the disconnect that set it
    sent,           \* frames emitted by the last step
    last,           \* the last step: [op, sock, arg]; arg of find_partner is the number
                    \* of ids it shifted off the queue
    regime,         \* the clients of this run, fixed from the start
    closing         \* ws server only: sockets with readyState CLOSING, whose 'close'
                    \* event is still to come

vars == <<connected, nextSocket, sockUser, usedIds, tokenToUser, waitingUsers,
          queue, activeRooms, nextRoom, userCount, rebinds, reapers, sent, last, regime, closing>>

\* ------------------------------------------------------------------ helpers
Msg(to, type, room, peer, role, num) ==
    [to |-> to, type |-> type, room |-> room, peer |-> peer, role |-> role, num |-> num]

Step(op, sock, arg) == [op |-> op, sock |-> sock, arg |-> arg]

Remove(f, k) == [x \in DOMAIN f \ {k} |-> f[x]]

Min(S) == CHOOSE x \in S : \A y \in S : x <= y

RECURSIVE SeqWithout(_, _)
SeqWithout(q, x) ==
    IF q = <<>> THEN <<>>
    ELSE IF Head(q) = x THEN Tail(q)
    ELSE <<Head(q)>> \o SeqWithout(Tail(q), x)

SeqElems(q) == {q[i] : i \in DOMAIN q}

IsMember(room, uid) == room.user1.id = uid \/ room.user2.id = uid

\* rooms of activeRooms that have uid as a member
RoomsOf(rooms, uid) == {r \in DOMAIN rooms : IsMember(rooms[r], uid)}

\* io.emit('user_count', { count: userCount })
broadcastUserCount(live, count) ==
    {Msg(s, "user_count", Null, Null, "", count) : s \in live}

\* waitingUsers.delete(userId); queue.splice(queue.indexOf(userId), 1)
cleanupWaitingSet(w, userId) == IF userId \in DOMAIN w THEN Remove(w, userId) ELSE w
cleanupWaitingQueueNoSplice(q, userId) == q
\* without the idx !== -1 test: splice(-1, 1) removes the last id
cleanupWaitingQueueSpliceAlways(q, userId) ==
    IF userId \in SeqElems(q) THEN SeqWithout(q, userId)
    ELSE IF q = <<>> THEN q ELSE SubSeq(q, 1, Len(q) - 1)
cleanupWaitingQueue(q, userId) == SeqWithout(q, userId)

\* scheduleTokenCleanup: arm the timer unless the entry is missing or has one
scheduleTokenCleanup(tokens, t) ==
    IF t \notin DOMAIN tokens THEN tokens
    ELSE IF tokens[t].cleanupTimer # NoTimer THEN tokens
    ELSE [tokens EXCEPT ![t].cleanupTimer = TtlTicks]

\* a cancelTokenCleanup that leaves the timer running
cancelTokenCleanupKeepsTimer(tokens, t) == tokens

\* cancelTokenCleanup
cancelTokenCleanup(tokens, t) ==
    IF t \in DOMAIN tokens /\ tokens[t].cleanupTimer # NoTimer
    THEN [tokens EXCEPT ![t].cleanupTimer = NoTimer]
    ELSE tokens

\* for (const [tkn, v] of tokenToUser.entries()) if (v.userId === a || v.userId === b) v.roomId = r
SetRoomIdOf(tokens, a, b, r) ==
    [t \in DOMAIN tokens |->
        IF tokens[t].userId = a \/ tokens[t].userId = b
        THEN [tokens[t] EXCEPT !.roomId = r]
        ELSE tokens[t]]


\* for (const [tkn, ud] of tokenToUser.entries()) if (ud.userId === a || ud.userId === b) ud.roomId = null
ClearRoomIdOfFirstOnly(tokens, a, b) == SetRoomIdOf(tokens, a, a, Null)
ClearRoomIdOf(tokens, a, b) == SetRoomIdOf(tokens, a, b, Null)

\* joinTime of a waiting entry and Date.now(), relative to the clock
Now == 1
JoinTimeOf(entry) == IF entry.fresh THEN Now ELSE Now - 1

\* Pairing helper: pop queue until find live waiting user.
\* Returns the candidate (or Null) with the queue and the waiting set it leaves.
RECURSIVE popCandidateKeepStale(_, _, _, _)
popCandidateKeepStale(q, w, requesterId, live) ==
    IF q = <<>> THEN [cand |-> Null, queue |-> q, waiting |-> w]
    ELSE LET cand == Head(q)
             rest == Tail(q)
         IN IF cand = requesterId THEN popCandidateKeepStale(rest, w, requesterId, live)
            ELSE IF cand \notin DOMAIN w THEN popCandidateKeepStale(rest, w, requesterId, live)
            ELSE IF w[cand].socketId \notin live
                 THEN popCandidateKeepStale(rest, w, requesterId, live)
            ELSE [cand |-> cand, queue |-> rest, waiting |-> w]

\* a pop that gives up at the first stale id instead of shifting on
popCandidateStopsAtStale(q, w, requesterId, live) ==
    IF q = <<>> THEN [cand |-> Null, queue |-> q, waiting |-> w]
    ELSE LET cand == Head(q)
             rest == Tail(q)
         IN IF cand = requesterId THEN [cand |-> Null, queue |-> q, waiting |-> w]
            ELSE IF cand \notin DOMAIN w THEN [cand |-> Null, queue |-> q, waiting |-> w]
            ELSE IF w[cand].socketId \notin live
                 THEN [cand |-> Null, queue |-> q, waiting |-> w]
            ELSE [cand |-> cand, queue |-> rest, waiting |-> w]

RECURSIVE popCandidateFromQueue(_, _, _, _)
popCandidateFromQueue(q, w, requesterId, live) ==
    IF q = <<>> THEN [cand |-> Null, queue |-> q, waiting |-> w]
    ELSE LET cand == Head(q)
             rest == Tail(q)
         IN IF cand = requesterId THEN popCandidateFromQueue(rest, w, requesterId, live)
            ELSE IF cand \notin DOMAIN w THEN popCandidateFromQueue(rest, w, requesterId, live)
            ELSE IF w[cand].socketId \notin live
                 THEN popCandidateFromQueue(rest, Remove(w, cand), requesterId, live)
            ELSE [cand |-> cand, queue |-> rest, waiting |-> w]

\* Determine initiator by joinTime or id order
determineInitiatorTieToFirst(aId, aJoin, bId, bJoin) ==
    IF aJoin < bJoin THEN [initiator |-> aId, responder |-> bId]
    ELSE IF bJoin < aJoin THEN [initiator |-> bId, responder |-> aId]
    ELSE [initiator |-> aId, responder |-> bId]

determineInitiatorTieToLarger(aId, aJoin, bId, bJoin) ==
    IF aJoin < bJoin THEN [initiator |-> aId, responder |-> bId]
    ELSE IF bJoin < aJoin THEN [initiator |-> bId, responder |-> aId]
    ELSE IF aId > bId THEN [initiator |-> aId, responder |-> bId]
    ELSE [initiator |-> bId, responder |-> aId]

determineInitiatorSameUser(aId, aJoin, bId, bJoin) ==
    IF aJoin < bJoin THEN [initiator |-> aId, responder |-> bId]
    ELSE IF bJoin < aJoin THEN [initiator |-> bId, responder |-> aId]
    ELSE IF aId < bId THEN [initiator |-> aId, responder |-> bId]
    ELSE [initiator |-> bId, responder |-> bId]

determineInitiator(aId, aJoin, bId, bJoin) ==
    IF aJoin < bJoin THEN [initiator |-> aId, responder |-> bId]
    ELSE IF bJoin < aJoin THEN [initiator |-> bId, responder |-> aId]
    ELSE IF aId < bId THEN [initiator |-> aId, responder |-> bId]
    ELSE [initiator |-> bId, responder |-> aId]

\* the room record find_partner builds
MakeRoomTwoInitiators(initId, initSock, respId, respSock) ==
    [user1 |-> [id |-> initId, socketId |-> initSock, initiator |-> TRUE],
     user2 |-> [id |-> respId, socketId |-> respSock, initiator |-> TRUE]]

MakeRoomRespFirst(initId, initSock, respId, respSock) ==
    [user1 |-> [id |-> respId, socketId |-> respSock, initiator |-> TRUE],
     user2 |-> [id |-> initId, socketId |-> initSock, initiator |-> FALSE]]

MakeRoom(initId, initSock, respId, respSock) ==
    [user1 |-> [id |-> initId, socketId |-> initSock, initiator |-> TRUE],
     user2 |-> [id |-> respId, socketId |-> respSock, initiator |-> FALSE]]

\* room.userN.socket = socket for the member records whose id is userId
RebindRoomAsInitiator(room, userId, s) ==
    [user1 |-> IF room.user1.id = userId
               THEN [room.user1 EXCEPT !.socketId = s, !.initiator = TRUE] ELSE room.user1,
     user2 |-> IF room.user2.id = userId
               THEN [room.user2 EXCEPT !.socketId = s, !.initiator = TRUE] ELSE room.user2]

RebindRoomBothMembers(room, userId, s) ==
    [user1 |-> [room.user1 EXCEPT !.socketId = s],
     user2 |-> [room.user2 EXCEPT !.socketId = s]]

RebindRoom(room, userId, s) ==
    [user1 |-> IF room.user1.id = userId THEN [room.user1 EXCEPT !.socketId = s] ELSE room.user1,
     user2 |-> IF room.user2.id = userId THEN [room.user2 EXCEPT !.socketId = s] ELSE room.user2]

\* room.user1.id === userId ? room.user2 : room.user1
PartnerOf(room, userId) == IF room.user1.id = userId THEN room.user2 ELSE room.user1

\* ------------------------------------------------------------------ state
TypeOK ==
    /\ connected \subseteq SocketIds
    /\ nextSocket \in 1..(CrowdSockets + 1)
    /\ DOMAIN sockUser = connected
    /\ usedIds \subseteq UserIds
    /\ DOMAIN tokenToUser \subseteq usedIds
    /\ DOMAIN waitingUsers \subseteq usedIds
    /\ DOMAIN activeRooms \subseteq 1..(nextRoom - 1)
    /\ userCount \in 0..CrowdSockets
    /\ regime \in Regimes
    /\ closing \subseteq SocketIds \ connected

Init ==
    /\ connected = {}
    /\ closing = {}
    /\ nextSocket = 1
    /\ sockUser = <<>>
    /\ usedIds = {}
    /\ tokenToUser = <<>>
    /\ waitingUsers = <<>>
    /\ queue = <<>>
    /\ activeRooms = <<>>
    /\ nextRoom = 1
    /\ userCount = 0
    /\ rebinds = 0
    /\ reapers = <<>>
    /\ sent = {}
    /\ last = Step("init", Null, Null)
    /\ regime \in Regimes

\* ------------------------------------------------------------------ the clients
\* generateId(): an id no user ever had.  A run of cap connections makes at most cap
\* users, so cap ids give every order of the ids.
FreshIds(cap) == (1..cap) \ usedIds

SocketCap == IF regime = "pair" THEN MaxSockets ELSE CrowdSockets
\* "crowd": no token in the handshake, nobody stays past the first timer
ClockRuns == regime # "crowd"
MayReattach == regime \in {"pair", "rebind"}
\* "switch": clients that connect, look for a partner, send reconnect_user and leave
MayReconnectUser == regime \in {"pair", "switch", "crowd"}
\* "rebind": clients that only connect, look for a partner and leave
MayProbe == regime \in {"pair", "crowd"}

\* ------------------------------------------------------------------ io.on('connection')
\* reattach branch: the handshake carries a token tokenToUser knows
ConnectionReattach(clientToken) ==
    LET s == nextSocket
        entry == tokenToUser[clientToken]
        userId == entry.userId
        live == connected \cup {s}
        hasRoom == entry.roomId # Null /\ entry.roomId \in DOMAIN activeRooms
        room == RebindRoom(activeRooms[entry.roomId], userId, s)
        partner == PartnerOf(room, userId)
    IN /\ clientToken \in DOMAIN tokenToUser
       /\ MayReattach
       /\ connected' = live
       /\ nextSocket' = s + 1
       /\ sockUser' = sockUser @@ (s :> userId)
       /\ tokenToUser' = cancelTokenCleanup([tokenToUser EXCEPT ![clientToken].socketId = s], clientToken)
       /\ activeRooms' = IF hasRoom THEN [activeRooms EXCEPT ![entry.roomId] = room] ELSE activeRooms
       /\ sent' = {Msg(s, "reconnect_success", entry.roomId, userId, "", Null)}
                  \cup (IF hasRoom /\ partner.socketId \in live
                        THEN {Msg(partner.socketId, "partner_reconnected", entry.roomId, userId, "", Null)}
                        ELSE {})
       /\ UNCHANGED <<usedIds, waitingUsers, queue, nextRoom, userCount, rebinds, reapers, regime, closing>>

\* new-user branch that rebinds the oldest identity instead of minting one
ConnectionNewUserReusesIdentity(clientToken) ==
    \E newId \in FreshIds(SocketCap) :
    LET s == nextSocket
        userId == IF DOMAIN tokenToUser = {} THEN newId ELSE Min(DOMAIN tokenToUser)
        live == connected \cup {s}
    IN /\ clientToken \notin DOMAIN tokenToUser
       /\ connected' = live
       /\ nextSocket' = s + 1
       /\ sockUser' = sockUser @@ (s :> userId)
       /\ usedIds' = usedIds \cup {newId}
       /\ tokenToUser' = (userId :> [userId |-> userId, socketId |-> s,
                                      roomId |-> Null, cleanupTimer |-> NoTimer]) @@ tokenToUser
       /\ userCount' = userCount + 1
       /\ sent' = broadcastUserCount(live, userCount + 1)
                  \cup {Msg(s, "welcome", Null, userId, "", userId)}
       /\ UNCHANGED <<waitingUsers, queue, activeRooms, nextRoom, rebinds, reapers, regime, closing>>
\* new-user branch: no token, or a token tokenToUser does not know
ConnectionNewUser(clientToken) ==
    \E userId \in FreshIds(SocketCap) :
    LET s == nextSocket
        live == connected \cup {s}
    IN /\ clientToken \notin DOMAIN tokenToUser
       /\ connected' = live
       /\ nextSocket' = s + 1
       /\ sockUser' = sockUser @@ (s :> userId)
       /\ usedIds' = usedIds \cup {userId}
       /\ tokenToUser' = tokenToUser @@ (userId :> [userId |-> userId, socketId |-> s,
                                                    roomId |-> Null, cleanupTimer |-> NoTimer])
       /\ userCount' = userCount + 1
       /\ sent' = broadcastUserCount(live, userCount + 1)
                  \cup {Msg(s, "welcome", Null, userId, "", userId)}
       /\ UNCHANGED <<waitingUsers, queue, activeRooms, nextRoom, rebinds, reapers, regime, closing>>

Connection(clientToken) ==
    /\ nextSocket <= SocketCap
    /\ last' = Step("connection", nextSocket, clientToken)
    /\ \/ ConnectionReattach(clientToken)
       \/ ConnectionNewUser(clientToken)

\* ------------------------------------------------------------------ reconnect_user
ReconnectUser(s, clientToken) ==
    LET known == clientToken # Null /\ clientToken \in DOMAIN tokenToUser
        entry == tokenToUser[clientToken]
        hasRoom == entry.roomId # Null /\ entry.roomId \in DOMAIN activeRooms
        partner == PartnerOf(activeRooms[entry.roomId], entry.userId)
    IN /\ s \in connected
       /\ MayReconnectUser
       /\ last' = Step("reconnect_user", s, clientToken)
       /\ IF known
          THEN /\ rebinds < MaxRebinds
               /\ rebinds' = rebinds + 1
               /\ tokenToUser' = cancelTokenCleanup([tokenToUser EXCEPT ![clientToken].socketId = s], clientToken)
               /\ sockUser' = [sockUser EXCEPT ![s] = entry.userId]
               /\ sent' = {Msg(s, "reconnect_success", entry.roomId, entry.userId, "", Null)}
                          \cup (IF hasRoom /\ partner.socketId \in connected
                                THEN {Msg(partner.socketId, "partner_reconnected", entry.roomId, entry.userId, "", Null)}
                                ELSE {})
          ELSE /\ sent' = {Msg(s, "reconnect_failed", Null, Null, "", Null)}
               /\ UNCHANGED <<tokenToUser, sockUser, rebinds>>
       /\ UNCHANGED <<connected, nextSocket, usedIds, waitingUsers, queue, activeRooms,
                      nextRoom, userCount, reapers, regime, closing>>

\* ------------------------------------------------------------------ find_partner
\* Array.from(activeRooms.values()).some(r => r.user1.id === userId || r.user2.id === userId)
AlreadyInRoomUser1Only(rooms, userId) == \E r \in DOMAIN rooms : rooms[r].user1.id = userId
AlreadyInRoom(rooms, userId) == RoomsOf(rooms, userId) # {}

\* waitingUsers.has(socket.userId)
AlreadyWaitingNever(w, userId) == FALSE
AlreadyWaiting(w, userId) == userId \in DOMAIN w

\* a candidate was popped: create the room, set both tokens' roomId, notify both
FindPartnerPair(s, userId, pop) ==
    LET candData == waitingUsers[pop.cand]
        roles == determineInitiator(userId, Now, pop.cand, JoinTimeOf(candData))
        initiatorSocketId == IF roles.initiator = userId THEN s ELSE candData.socketId
        responderSocketId == IF roles.responder = userId THEN s ELSE candData.socketId
        roomId == nextRoom
    IN /\ nextRoom <= MaxRooms
       /\ waitingUsers' = cleanupWaitingSet(pop.waiting, pop.cand)
       /\ queue' = pop.queue
       /\ activeRooms' = activeRooms @@
              (roomId :> MakeRoom(roles.initiator, initiatorSocketId, roles.responder, responderSocketId))
       /\ nextRoom' = roomId + 1
       /\ tokenToUser' = SetRoomIdOf(tokenToUser, roles.initiator, roles.responder, roomId)
       /\ sent' = {Msg(initiatorSocketId, "room_assigned", roomId, roles.responder, "initiator", Null),
                   Msg(responderSocketId, "room_assigned", roomId, roles.initiator, "responder", Null)}

\* no candidate: add to waiting queue and push id
FindPartnerEnqueue(s, userId, pop) ==
    /\ waitingUsers' = (userId :> [socketId |-> s, fresh |-> TRUE]) @@ pop.waiting
    /\ queue' = Append(pop.queue, userId)
    /\ sent' = {}
    /\ UNCHANGED <<activeRooms, nextRoom, tokenToUser>>

FindPartner(s) ==
    LET userId == sockUser[s]
        pop == popCandidateFromQueue(queue, waitingUsers, userId, connected)
    IN /\ s \in connected
       /\ last' = Step("find_partner", s,
                       IF AlreadyInRoom(activeRooms, userId) \/ AlreadyWaiting(waitingUsers, userId)
                       THEN 0 ELSE Len(queue) - Len(pop.queue))
       /\ IF AlreadyInRoom(activeRooms, userId) \/ AlreadyWaiting(waitingUsers, userId)
          THEN /\ sent' = {}
               /\ UNCHANGED <<waitingUsers, queue, activeRooms, nextRoom, tokenToUser>>
          ELSE IF pop.cand # Null
               THEN FindPartnerPair(s, userId, pop)
               ELSE FindPartnerEnqueue(s, userId, pop)
       /\ UNCHANGED <<connected, nextSocket, sockUser, usedIds, userCount, rebinds, reapers, regime, closing>>

\* ------------------------------------------------------------------ join_room
\* join_room without the isUser1 / isUser2 test
JoinRoomNoMembershipTest(s, roomToJoin) ==
    LET userId == sockUser[s]
        room == activeRooms[roomToJoin]
        isUser1 == room.user1.id = userId
        flag == IF isUser1 THEN room.user1.initiator ELSE room.user2.initiator
    IN /\ s \in connected
       /\ MayProbe
       /\ last' = Step("join_room", s, roomToJoin)
       /\ IF roomToJoin \notin DOMAIN activeRooms
          THEN /\ sent' = {Msg(s, "join_failed", Null, Null, "no_room", Null)}
               /\ UNCHANGED activeRooms
          ELSE /\ activeRooms' = [activeRooms EXCEPT ![roomToJoin] = RebindRoom(room, userId, s)]
               /\ sent' = {Msg(s, "room_joined", roomToJoin,
                               IF isUser1 THEN room.user2.id ELSE room.user1.id,
                               IF flag THEN "initiator" ELSE "responder", Null)}
       /\ UNCHANGED <<connected, nextSocket, sockUser, usedIds, tokenToUser, waitingUsers,
                      queue, nextRoom, userCount, rebinds, reapers, regime, closing>>

JoinRoom(s, roomToJoin) ==
    LET userId == sockUser[s]
        room == activeRooms[roomToJoin]
        isUser1 == room.user1.id = userId
        isUser2 == room.user2.id = userId
        flag == IF isUser1 THEN room.user1.initiator ELSE room.user2.initiator
    IN /\ s \in connected
       /\ MayProbe
       /\ last' = Step("join_room", s, roomToJoin)
       /\ IF roomToJoin \notin DOMAIN activeRooms
          THEN /\ sent' = {Msg(s, "join_failed", Null, Null, "no_room", Null)}
               /\ UNCHANGED activeRooms
          ELSE IF ~isUser1 /\ ~isUser2
          THEN /\ sent' = {Msg(s, "join_failed", Null, Null, "not_authorized", Null)}
               /\ UNCHANGED activeRooms
          ELSE /\ activeRooms' = [activeRooms EXCEPT ![roomToJoin] = RebindRoom(room, userId, s)]
               /\ sent' = {Msg(s, "room_joined", roomToJoin,
                               IF isUser1 THEN room.user2.id ELSE room.user1.id,
                               IF flag THEN "initiator" ELSE "responder", Null)}
       /\ UNCHANGED <<connected, nextSocket, sockUser, usedIds, tokenToUser, waitingUsers,
                      queue, nextRoom, userCount, rebinds, reapers, regime, closing>>

\* ------------------------------------------------------------------ skip
Skip(s) ==
    LET userId == sockUser[s]
        mine == RoomsOf(activeRooms, userId)
        roomId == Min(mine)
        otherUser == PartnerOf(activeRooms[roomId], userId)
    IN /\ s \in connected
       /\ MayProbe
       /\ last' = Step("skip", s, Null)
       /\ IF mine # {}
          THEN /\ sent' = IF otherUser.socketId \in connected
                          THEN {Msg(otherUser.socketId, "partner_skipped", Null, Null, "", Null)}
                          ELSE {}
               /\ activeRooms' = Remove(activeRooms, roomId)
               /\ tokenToUser' = ClearRoomIdOf(tokenToUser, userId, otherUser.id)
               /\ UNCHANGED <<waitingUsers, queue>>
          ELSE /\ waitingUsers' = cleanupWaitingSet(waitingUsers, userId)
               /\ queue' = cleanupWaitingQueue(queue, userId)
               /\ sent' = {}
               /\ UNCHANGED <<activeRooms, tokenToUser>>
       /\ UNCHANGED <<connected, nextSocket, sockUser, usedIds, nextRoom, userCount, rebinds, reapers, regime, closing>>

\* ------------------------------------------------------------------ offer / answer / ice-candidate
\* whether the handler gets past its membership check
RelayAuthorizedAnySender(room, senderId) == TRUE
RelayAuthorized(room, senderId) == room.user1.id = senderId \/ room.user2.id = senderId

\* a handler that emits to every open socket instead of the partner's
RelayFramesToEverySocket(kind, senderId, roomId, rooms, live) ==
    IF roomId \notin DOMAIN rooms THEN {}
    ELSE IF ~RelayAuthorized(rooms[roomId], senderId) THEN {}
    ELSE {Msg(x, kind, Null, senderId, Payload, Null) : x \in live}

\* a handler that emits an offer it held back together with the frame it received
RelayFramesWithHeldOffer(kind, senderId, roomId, rooms, live) ==
    IF roomId \notin DOMAIN rooms THEN {}
    ELSE IF ~RelayAuthorized(rooms[roomId], senderId) THEN {}
    ELSE LET target == PartnerOf(rooms[roomId], senderId)
         IN IF target.socketId \in live
            THEN {Msg(target.socketId, kind, Null, senderId, Payload, Null),
                  Msg(target.socketId, "offer", Null, senderId, Payload, Null)}
            ELSE {}

\* the frames one signaling handler emits
RelayFrames(kind, senderId, roomId, rooms, live) ==
    IF roomId \notin DOMAIN rooms THEN {}
    ELSE IF ~RelayAuthorized(rooms[roomId], senderId) THEN {}
    ELSE LET target == PartnerOf(rooms[roomId], senderId)
         IN IF target.socketId \in live
            THEN {Msg(target.socketId, kind, Null, senderId, Payload, Null)}
            ELSE {}

Signal(s, kind, roomId) ==
    /\ s \in connected
    /\ MayProbe
    /\ last' = Step(kind, s, roomId)
    /\ sent' = RelayFrames(kind, sockUser[s], roomId, activeRooms, connected)
    /\ UNCHANGED <<connected, nextSocket, sockUser, usedIds, tokenToUser, waitingUsers,
                   queue, activeRooms, nextRoom, userCount, rebinds, reapers, regime, closing>>

\* ------------------------------------------------------------------ request_reoffer
RequestReoffer(s, roomId) ==
    LET room == activeRooms[roomId]
        initiatorUser == IF room.user1.initiator THEN room.user1 ELSE room.user2
    IN /\ s \in connected
       /\ MayProbe
       /\ last' = Step("request_reoffer", s, roomId)
       /\ sent' = IF roomId \notin DOMAIN activeRooms THEN {}
                  ELSE IF ~room.user1.initiator /\ ~room.user2.initiator THEN {}
                  ELSE IF initiatorUser.socketId \in connected
                  THEN {Msg(initiatorUser.socketId, "request_reoffer", roomId, sockUser[s], "", Null)}
                  ELSE {}
       /\ UNCHANGED <<connected, nextSocket, sockUser, usedIds, tokenToUser, waitingUsers,
                      queue, activeRooms, nextRoom, userCount, rebinds, reapers, regime, closing>>

\* ------------------------------------------------------------------ disconnect
\* the token loop: the first entry of this user gets socketId null and a cleanup timer
DetachToken(tokens, userId) ==
    LET hits == {t \in DOMAIN tokens : tokens[t].userId = userId}
    IN IF hits = {} THEN tokens
       ELSE scheduleTokenCleanup([tokens EXCEPT ![Min(hits)].socketId = Null], Min(hits))

Disconnect(s) ==
    LET userId == sockUser[s]
        live == connected \ {s}
        mine == RoomsOf(activeRooms, userId)
        roomId == Min(mine)
        other == PartnerOf(activeRooms[roomId], userId)
    IN /\ s \in connected
       /\ last' = Step("disconnect", s, Null)
       /\ connected' = live
       /\ sockUser' = Remove(sockUser, s)
       /\ tokenToUser' = DetachToken(tokenToUser, userId)
       /\ reapers' = IF mine # {}
                     THEN Append(reapers, [room |-> roomId, due |-> TtlTicks + ReaperExtraTicks, user |-> userId])
                     ELSE reapers
       /\ waitingUsers' = cleanupWaitingSet(waitingUsers, userId)
       /\ queue' = cleanupWaitingQueue(queue, userId)
       /\ sent' = (IF mine # {} /\ other.socketId \in live
                   THEN {Msg(other.socketId, "partner_disconnected", roomId, userId, "", Null)}
                   ELSE {})
                  \cup broadcastUserCount(live, userCount)
       /\ UNCHANGED <<nextSocket, usedIds, activeRooms, nextRoom, userCount, rebinds, regime, closing>>

\* ------------------------------------------------------------------ timers
\* the callback scheduleTokenCleanup arms
TokenTimerFire(token) ==
    LET cur == tokenToUser[token]
    IN /\ token \in DOMAIN tokenToUser
       /\ cur.cleanupTimer = 0
       /\ last' = Step("token_timer", Null, token)
       /\ tokenToUser' = IF cur.socketId = Null /\ cur.roomId = Null
                         THEN Remove(tokenToUser, token)
                         ELSE [tokenToUser EXCEPT ![token].cleanupTimer = NoTimer]
       /\ sent' = {}
       /\ UNCHANGED <<connected, nextSocket, sockUser, usedIds, waitingUsers, queue,
                      activeRooms, nextRoom, userCount, rebinds, reapers, regime, closing>>

\* whether cleanupRoomIfBothDisconnected deletes the room
BothDisconnected(room, live) == room.user1.socketId \notin live /\ room.user2.socketId \notin live

\* setTimeout(() => cleanupRoomIfBothDisconnected(roomId), ROOM_RECONNECT_TTL_MS + 1000)
RoomReaperFire ==
    LET roomId == Head(reapers).room
        room == activeRooms[roomId]
        deletes == roomId \in DOMAIN activeRooms /\ BothDisconnected(room, connected)
    IN /\ reapers # <<>>
       /\ Head(reapers).due = 0
       /\ last' = Step("room_reaper", Null, roomId)
       /\ reapers' = Tail(reapers)
       /\ activeRooms' = IF deletes THEN Remove(activeRooms, roomId) ELSE activeRooms
       /\ tokenToUser' = IF deletes THEN ClearRoomIdOf(tokenToUser, room.user1.id, room.user2.id)
                         ELSE tokenToUser
       /\ sent' = {}
       /\ UNCHANGED <<connected, nextSocket, sockUser, usedIds, waitingUsers, queue,
                      nextRoom, userCount, rebinds, regime, closing>>

\* the clock advances by one unit; a timer that is due fires first
TimerDue ==
    \/ \E t \in DOMAIN tokenToUser : tokenToUser[t].cleanupTimer = 0
    \/ \E i \in DOMAIN reapers : reapers[i].due = 0

TimePending ==
    \/ \E t \in DOMAIN tokenToUser : tokenToUser[t].cleanupTimer # NoTimer
    \/ reapers # <<>>
    \/ \E u \in DOMAIN waitingUsers : waitingUsers[u].fresh

Tick ==
    /\ ClockRuns
    /\ ~TimerDue
    /\ TimePending
    /\ last' = Step("tick", Null, Null)
    /\ tokenToUser' = [t \in DOMAIN tokenToUser |->
           IF tokenToUser[t].cleanupTimer # NoTimer
           THEN [tokenToUser[t] EXCEPT !.cleanupTimer = @ - 1]
           ELSE tokenToUser[t]]
    /\ reapers' = [i \in DOMAIN reapers |-> [reapers[i] EXCEPT !.due = @ - 1]]
    /\ waitingUsers' = [u \in DOMAIN waitingUsers |-> [waitingUsers[u] EXCEPT !.fresh = FALSE]]
    /\ sent' = {}
    /\ UNCHANGED <<connected, nextSocket, sockUser, usedIds, queue, activeRooms, nextRoom, userCount, rebinds, regime, closing>>

\* ------------------------------------------------------------------ specification
ClientTokens == {Null, BogusToken} \cup usedIds
\* the wider regimes send fewer kinds of frame: one kind of signaling frame, always
\* with a room field, and reconnect_user only with a token that was minted (it may
\* have expired)
RebindTokens == IF regime = "pair" THEN ClientTokens ELSE usedIds
ProbeKinds == IF regime = "pair" THEN SignalKinds ELSE {"offer"}
ProbeRooms == IF regime = "pair" THEN RoomIds \cup {Null} ELSE RoomIds

Next ==
    \/ \E tok \in ClientTokens : Connection(tok)
    \/ \E s \in connected, tok \in RebindTokens : ReconnectUser(s, tok)
    \/ \E s \in connected : FindPartner(s)
    \/ \E s \in connected, r \in RoomIds : JoinRoom(s, r)
    \/ \E s \in connected : Skip(s)
    \/ \E s \in connected, k \in ProbeKinds, r \in ProbeRooms : Signal(s, k, r)
    \/ \E s \in connected, r \in RoomIds : RequestReoffer(s, r)
    \/ \E s \in connected : Disconnect(s)
    \/ \E t \in DOMAIN tokenToUser : TokenTimerFire(t)
    \/ RoomReaperFire
    \/ Tick

Spec == Init /\ [][Next]_vars

\* runs in which the clock runs: a timer that is due fires, time passes while a
\* timer is pending; clients are free to stop
ClockInit ==
    /\ connected = {}
    /\ closing = {}
    /\ nextSocket = 1
    /\ sockUser = <<>>
    /\ usedIds = {}
    /\ tokenToUser = <<>>
    /\ waitingUsers = <<>>
    /\ queue = <<>>
    /\ activeRooms = <<>>
    /\ nextRoom = 1
    /\ userCount = 0
    /\ rebinds = 0
    /\ reapers = <<>>
    /\ sent = {}
    /\ last = Step("init", Null, Null)
    /\ regime \in {r \in Regimes : r # "crowd"}

FairSpec ==
    /\ ClockInit
    /\ [][Next]_vars
    /\ WF_vars(\E t \in DOMAIN tokenToUser : TokenTimerFire(t))
    /\ WF_vars(RoomReaperFire)
    /\ WF_vars(Tick)

\* ------------------------------------------------------------------ properties
Rooms == DOMAIN activeRooms
Tokens == DOMAIN tokenToUser
Members(r) == {activeRooms[r].user1, activeRooms[r].user2}
Occurrences(q, x) == Cardinality({i \in DOMAIN q : q[i] = x})
Attached == {t \in Tokens : tokenToUser[t].socketId # Null}
\* everything the server keeps, without the record of the last step
serverState == <<connected, sockUser, usedIds, tokenToUser, waitingUsers, queue,
                 activeRooms, nextRoom, userCount, reapers>>

\* C1: every room in activeRooms has exactly one member flagged initiator.
C1_OneInitiator ==
    \A r \in Rooms : activeRooms[r].user1.initiator # activeRooms[r].user2.initiator

\* a room that has just been created by find_partner
C1_Witness ==
    /\ last.op = "find_partner"
    /\ \E r \in Rooms : r = nextRoom - 1 /\ sent # {}

\* C2: every user id is a member of at most one room, has at most one waiting
\* entry, and is never both waiting and a member of a room.
C2_OneRoomOrWaiting ==
    \A u \in UserIds :
        /\ Cardinality(RoomsOf(activeRooms, u)) <= 1
        /\ Occurrences(queue, u) <= 1
        /\ ~(u \in DOMAIN waitingUsers /\ RoomsOf(activeRooms, u) # {})

\* two sockets asked for the one waiting user: one got the room, the other waits
C2_Witness ==
    /\ last.op = "find_partner"
    /\ Rooms # {}
    /\ \E u \in DOMAIN waitingUsers :
          /\ waitingUsers[u].socketId = last.sock
          /\ RoomsOf(activeRooms, u) = {}

\* C3: no room has the same user id as both of its members.
C3_NoSelfRoom ==
    \A r \in Rooms : activeRooms[r].user1.id # activeRooms[r].user2.id

\* a socket that switched identity with reconnect_user was paired with the user it
\* had enqueued before: one socket, two distinct user ids
C3_Witness ==
    \E r \in Rooms :
        /\ activeRooms[r].user1.socketId = activeRooms[r].user2.socketId
        /\ activeRooms[r].user1.id # activeRooms[r].user2.id

\* C4: a user id is a key of waitingUsers iff it occurs in queue, and then exactly once.
C4_WaitingIffQueued ==
    \A u \in UserIds :
        /\ u \in DOMAIN waitingUsers <=> u \in SeqElems(queue)
        /\ Occurrences(queue, u) <= 1

\* a disconnect ran cleanupUserFromWaiting and a user is still waiting: the
\* waiter whose socket is the one that closed, queued once
C4_Witness ==
    /\ last.op = "disconnect"
    /\ \E u \in DOMAIN waitingUsers :
          /\ waitingUsers[u].socketId = last.sock
          /\ queue = <<u>>

\* C5: an offer, answer or ice-candidate from a user who is not a member of the room
\* the frame names is delivered to nobody and changes no server state.
C5_OutsiderFrameDropped ==
    [][(/\ last'.op \in SignalKinds
        /\ last'.arg \in Rooms
        /\ ~IsMember(activeRooms[last'.arg], sockUser[last'.sock]))
       => (sent' = {} /\ UNCHANGED serverState)]_vars

\* an outsider named a room whose two members are both connected, and nothing was sent
C5_Witness ==
    /\ last.op \in SignalKinds
    /\ last.arg \in Rooms
    /\ ~IsMember(activeRooms[last.arg], sockUser[last.sock])
    /\ activeRooms[last.arg].user1.socketId \in connected
    /\ activeRooms[last.arg].user2.socketId \in connected
    /\ sent = {}

\* C6: after every connect, reconnect, disconnect and token-expiry step the userCount
\* that is broadcast equals the number of tokens with an attached socket.
C6_UserCountIsAttached ==
    last.op \in {"connection", "reconnect_user", "disconnect", "token_timer"}
        => userCount = Cardinality(Attached)

\* C7: every token with roomId = R names a room of activeRooms that has the token's
\* user as a member.
C7_TokenRoomValid ==
    \A t \in Tokens :
        tokenToUser[t].roomId # Null =>
            /\ tokenToUser[t].roomId \in Rooms
            /\ IsMember(activeRooms[tokenToUser[t].roomId], tokenToUser[t].userId)

\* the room reaper has just deleted a room whose members still have their tokens
C7_Witness ==
    /\ last.op = "room_reaper"
    /\ last.arg \notin Rooms
    /\ Cardinality(Tokens) >= 2
    /\ \A t \in Tokens : tokenToUser[t].roomId = Null

\* C8: every member of every room has a token, and that token's roomId is the room.
C8_MemberHasToken ==
    \A r \in Rooms : \A m \in Members(r) :
        \E t \in Tokens : tokenToUser[t].userId = m.id /\ tokenToUser[t].roomId = r

\* C9: when a token is bound to an open socket S2 and an older socket S1 of the same
\* user disconnects, the token keeps its socketId, no expiry is scheduled, the user
\* stays in waitingUsers and queue, and no partner_disconnected is sent.
C9_StaleSocketDisconnectIgnored ==
    [][\A t \in Tokens :
          (/\ last'.op = "disconnect"
           /\ last'.sock \in connected
           /\ tokenToUser[t].userId = sockUser[last'.sock]
           /\ tokenToUser[t].socketId \in connected \ {last'.sock})
          => (/\ t \in DOMAIN tokenToUser'
              /\ tokenToUser'[t].socketId = tokenToUser[t].socketId
              /\ tokenToUser'[t].cleanupTimer = tokenToUser[t].cleanupTimer
              /\ waitingUsers' = waitingUsers
              /\ queue' = queue
              /\ \A m \in sent' : m.type # "partner_disconnected")]_vars

\* C10: a token with no socket and no room that is never presented again is
\* eventually removed: no token stays idle for ever.
IdleToken(t) ==
    /\ t \in Tokens
    /\ tokenToUser[t].socketId = Null
    /\ tokenToUser[t].roomId = Null

C10_IdleTokensExpire == \A t \in UserIds : []<>(~IdleToken(t))

\* both sockets of the member records of room r are closed
Abandoned(r) == r \in Rooms /\ \A m \in Members(r) : m.socketId \notin connected

\* C11: a room whose two members have disconnected and do not reconnect is eventually
\* deleted; the reaper that deletes it leaves no token with that roomId, and a reaper
\* that fires for a room id that is gone changes neither the rooms nor the tokens.
C11_AbandonedRoomDeletedOnce ==
    /\ \A r \in RoomIds : []<>(~Abandoned(r))
    /\ [][last'.op = "room_reaper" =>
             /\ Abandoned(last'.arg) =>
                   /\ last'.arg \notin DOMAIN activeRooms'
                   /\ \A t \in DOMAIN tokenToUser' : tokenToUser'[t].roomId # last'.arg
             /\ last'.arg \notin Rooms =>
                   /\ activeRooms' = activeRooms
                   /\ tokenToUser' = tokenToUser]_vars

\* C12: when a room member's socket disconnects and the client connects again with the
\* same token before ROOM_RECONNECT_TTL_MS has passed since that disconnect, the new
\* socket gets the same user id and reconnect_success carries the room the user was
\* in.  Stated for clients that never skip, so that only a timer can end the room.
C12_ReconnectRestoresRoom ==
    [][\A i \in DOMAIN reapers :
          (/\ regime = "rebind"
           /\ last'.op = "connection"
           /\ last'.arg = reapers[i].user
           /\ reapers[i].due > ReaperExtraTicks)
          => (/\ sockUser'[last'.sock] = reapers[i].user
              /\ \E m \in sent' : /\ m.type = "reconnect_success"
                                  /\ m.to = last'.sock
                                  /\ m.peer = reapers[i].user
                                  /\ m.room = reapers[i].room)]_vars

\* C13: the room reaper does not delete a room before ROOM_RECONNECT_TTL_MS has passed
\* since the most recent disconnect of one of its members, and a reaper set by a
\* disconnect of a member who has been connected again since does not delete it.
C13_NoEarlyReaping ==
    [][(/\ last'.op = "room_reaper"
        /\ last'.arg \in Rooms
        /\ last'.arg \notin DOMAIN activeRooms')
       => (/\ \A i \in DOMAIN reapers :
                 reapers[i].room = last'.arg => reapers[i].due <= ReaperExtraTicks
           /\ \A j \in 2..Len(reapers) :
                 reapers[j].room = last'.arg => reapers[j].user # Head(reapers).user)]_vars

\* the sockets the tokens of user u are bound to (entry.socketId)
BoundSockets(u) ==
    {tokenToUser[t].socketId : t \in {x \in Tokens : tokenToUser[x].userId = u}}

\* C14: the room reaper deletes a room only when neither member's identity has an
\* open socket bound to it.
C14_ReaperSparesAttached ==
    [][(/\ last'.op = "room_reaper"
        /\ last'.arg \in Rooms
        /\ last'.arg \notin DOMAIN activeRooms')
       => \A m \in Members(last'.arg) : BoundSockets(m.id) \cap connected = {}]_vars

\* C15: when a client presents a known token, in the handshake or in reconnect_user,
\* and the token's room exists, the member record of that user gets the new socket, an
\* offer the partner sends next is delivered to the new socket, and the partner's open
\* socket is sent partner_reconnected with the room id and the user's id.
C15_ReattachRebindsRoom ==
    [][\A t \in Tokens :
          (/\ last'.op \in {"connection", "reconnect_user"}
           /\ last'.arg = t
           /\ tokenToUser[t].roomId \in Rooms)
          => LET r == tokenToUser[t].roomId
                 u == tokenToUser[t].userId
                 partners == {m \in Members(r) : m.id # u}
             IN /\ \A m \in {activeRooms'[r].user1, activeRooms'[r].user2} :
                       m.id = u => m.socketId = last'.sock
                /\ \A p \in partners :
                       /\ RelayFrames("offer", p.id, r, activeRooms', connected')
                              = {Msg(last'.sock, "offer", Null, p.id, Payload, Null)}
                       /\ \A ps \in BoundSockets(p.id) \cap connected :
                              Msg(ps, "partner_reconnected", r, u, "", Null) \in sent']_vars

\* the identity and role part of a room record
Roles(room) == <<room.user1.id, room.user1.initiator, room.user2.id, room.user2.initiator>>

\* C16: as long as a room id stays in activeRooms, the two member user ids and their
\* initiator flags of that room do not change.
C16_RoomRolesFixed ==
    [][\A r \in Rooms :
          r \in DOMAIN activeRooms' => Roles(activeRooms'[r]) = Roles(activeRooms[r])]_vars

\* the responder of a room has come back on a new socket: the record holds the new
\* socket and the initiator was told partner_reconnected
C16_Witness ==
    /\ last.op = "connection"
    /\ \E r \in Rooms :
          /\ activeRooms[r].user2.socketId = last.sock
          /\ ~activeRooms[r].user2.initiator
          /\ Msg(activeRooms[r].user1.socketId, "partner_reconnected", r,
                 activeRooms[r].user2.id, "", Null) \in sent

\* find_partner has created a room in this step
Paired == last'.op = "find_partner" /\ nextRoom' = nextRoom + 1

\* C17: when find_partner pairs a requester with a waiting user, the waiting user is
\* the initiator and the requester the responder.
C17_WaiterInitiates ==
    [][Paired =>
          LET room == activeRooms'[nextRoom]
              requester == sockUser[last'.sock]
          IN /\ room.user1.id \in DOMAIN waitingUsers
             /\ room.user1.id # requester
             /\ room.user2.id = requester]_vars

\* C17 as amended: the waiting user is the initiator if it joined at an earlier clock
\* reading than the requester's Date.now(); if the two readings are equal the user
\* with the smaller id is the initiator, which may be the requester.
C17_WaiterInitiatesUnlessTie ==
    [][Paired =>
          LET room == activeRooms'[nextRoom]
              requester == sockUser[last'.sock]
              waiter == CHOOSE u \in {room.user1.id, room.user2.id} : u # requester
              tie == waitingUsers[waiter].fresh
              first == IF tie /\ requester < waiter THEN requester ELSE waiter
          IN /\ {room.user1.id, room.user2.id} = {requester, waiter}
             /\ waiter \in DOMAIN waitingUsers
             /\ room.user1.id = first
             /\ room.user1.initiator /\ ~room.user2.initiator]_vars

\* a requester was paired in the millisecond the waiter had joined and, having the
\* smaller id, became the initiator on its own socket
C17_Witness ==
    /\ last.op = "find_partner"
    /\ \E r \in Rooms :
          /\ r = nextRoom - 1
          /\ activeRooms[r].user1.socketId = last.sock
          /\ activeRooms[r].user2.socketId # last.sock
          /\ activeRooms[r].user1.id < activeRooms[r].user2.id
          /\ sent # {}

\* ------------------------------------------------------------------ determineInitiator on its own
\* determineInitiator applied to any two distinct user ids and any two joinTimes.  A
\* user id stands for its rank in the order `<` puts the id strings in; joinTime is a
\* number, on which (joinTime||0) is the number itself.  `last` holds the arguments
\* (a, b) and `sent` the value returned.
JoinTimes == 0..MaxJoinTime

Arg(id, joinTime) == [id |-> id, joinTime |-> joinTime]

InitiatorInit ==
    /\ connected = {}
    /\ closing = {}
    /\ nextSocket = 1
    /\ sockUser = <<>>
    /\ usedIds = {}
    /\ tokenToUser = <<>>
    /\ waitingUsers = <<>>
    /\ queue = <<>>
    /\ activeRooms = <<>>
    /\ nextRoom = 1
    /\ userCount = 0
    /\ rebinds = 0
    /\ reapers = <<>>
    /\ sent = {}
    /\ last = Step("init", Null, Null)
    /\ regime = "pair"

ApplyDetermineInitiator(a, b) ==
    /\ a.id # b.id
    /\ last' = Step("determineInitiator", a, b)
    /\ sent' = {determineInitiator(a.id, a.joinTime, b.id, b.joinTime)}
    /\ UNCHANGED <<connected, nextSocket, sockUser, usedIds, tokenToUser, waitingUsers,
                   queue, activeRooms, nextRoom, userCount, rebinds, reapers, regime, closing>>

InitiatorNext ==
    \E aId \in UserIds, bId \in UserIds, aJoin \in JoinTimes, bJoin \in JoinTimes :
        ApplyDetermineInitiator(Arg(aId, aJoin), Arg(bId, bJoin))

InitiatorSpec == InitiatorInit /\ [][InitiatorNext]_vars

\* C18: determineInitiator returns as initiator the user with the strictly smaller
\* joinTime and, for equal joinTimes, the user with the smaller id; the other user is
\* the responder; swapping the two arguments gives the same answer.
C18_InitiatorIsEarlierThenSmaller ==
    last.op = "determineInitiator" =>
        LET a == last.sock
            b == last.arg
            first == IF a.joinTime # b.joinTime
                     THEN (CHOOSE x \in {a, b} : \A y \in {a, b} : x.joinTime <= y.joinTime)
                     ELSE (CHOOSE x \in {a, b} : \A y \in {a, b} : x.id <= y.id)
            second == CHOOSE x \in {a, b} : x # first
        IN /\ sent = {[initiator |-> first.id, responder |-> second.id]}
           /\ sent = {determineInitiator(b.id, b.joinTime, a.id, a.joinTime)}

\* equal joinTimes and the second argument has the smaller id: it is the initiator
C18_Witness ==
    /\ last.op = "determineInitiator"
    /\ last.sock.joinTime = last.arg.joinTime
    /\ last.arg.id < last.sock.id
    /\ sent = {[initiator |-> last.arg.id, responder |-> last.sock.id]}

\* role: member.initiator ? 'initiator' : 'responder'
RoleName(member) == IF member.initiator THEN "initiator" ELSE "responder"

\* C19: when find_partner creates room R it sends two room_assigned frames and nothing
\* else: one per member, to the member's socket, with room R, the member's own role as
\* the room record has it, and the other member's user id as partnerId; one role is
\* initiator and one responder.
C19_RoomAssignedToBoth ==
    [][Paired =>
          LET r == nextRoom
              room == activeRooms'[r]
              Frame(m, other) == Msg(m.socketId, "room_assigned", r, other.id, RoleName(m), Null)
              ForRole(role) == {x \in sent' : x.type = "room_assigned" /\ x.role = role}
          IN /\ sent' = {Frame(room.user1, room.user2), Frame(room.user2, room.user1)}
             /\ RoleName(room.user1) # RoleName(room.user2)
             /\ ForRole(RoleName(room.user1)) = {Frame(room.user1, room.user2)}
             /\ ForRole(RoleName(room.user2)) = {Frame(room.user2, room.user1)}]_vars

\* a room of two sockets has just been created, the requester being the responder, and
\* each socket holds its own room_assigned
C19_Witness ==
    /\ last.op = "find_partner"
    /\ \E r \in Rooms :
          /\ r = nextRoom - 1
          /\ activeRooms[r].user2.socketId = last.sock
          /\ activeRooms[r].user1.socketId # last.sock
          /\ Msg(last.sock, "room_assigned", r, activeRooms[r].user1.id, "responder", Null) \in sent
          /\ Msg(activeRooms[r].user1.socketId, "room_assigned", r,
                 activeRooms[r].user2.id, "initiator", Null) \in sent

\* C20: find_partner from a user who is neither waiting nor in a room pairs the
\* requester with the first user in queue order that has a waitingUsers entry with an
\* open socket; the ids ahead of it leave the queue and waitingUsers and the requester
\* is sent nothing about them; if there is no such user every id leaves the queue and
\* waitingUsers, and the requester is put into waitingUsers and at the end of the queue.
C20_PairsWithFirstLiveWaiter ==
    [][(/\ last'.op = "find_partner"
        /\ RoomsOf(activeRooms, sockUser[last'.sock]) = {}
        /\ sockUser[last'.sock] \notin DOMAIN waitingUsers)
       => LET u == sockUser[last'.sock]
              liveAt == {i \in DOMAIN queue :
                            /\ queue[i] # u
                            /\ queue[i] \in DOMAIN waitingUsers
                            /\ waitingUsers[queue[i]].socketId \in connected}
              k == Min(liveAt)
              ahead == {queue[i] : i \in 1..(k - 1)}
          IN IF liveAt # {}
             THEN /\ nextRoom \in DOMAIN activeRooms'
                  /\ {activeRooms'[nextRoom].user1.id, activeRooms'[nextRoom].user2.id} = {u, queue[k]}
                  /\ queue' = SubSeq(queue, k + 1, Len(queue))
                  /\ DOMAIN waitingUsers' = DOMAIN waitingUsers \ (ahead \cup {queue[k]})
                  /\ \A m \in sent' : m.type = "room_assigned"
             ELSE /\ activeRooms' = activeRooms
                  /\ queue' = <<u>>
                  /\ DOMAIN waitingUsers' = (DOMAIN waitingUsers \ SeqElems(queue)) \cup {u}
                  /\ waitingUsers'[u].socketId = last'.sock
                  /\ sent' = {}]_vars

\* find_partner shifted the id of a waiter whose socket has closed off the queue,
\* dropped its waitingUsers entry and enqueued the requester instead
C20_Witness ==
    /\ last.op = "find_partner"
    /\ last.arg = 1
    /\ Rooms = {}
    /\ Len(queue) = 1
    /\ DOMAIN waitingUsers = {queue[1]}
    /\ waitingUsers[queue[1]].socketId = last.sock

\* C21: a find_partner from a user who is already waiting or already in a room leaves
\* tokens, waitingUsers, queue, activeRooms and userCount as they are and sends nothing.
C21_FindPartnerIdempotent ==
    [][(/\ last'.op = "find_partner"
        /\ \/ sockUser[last'.sock] \in DOMAIN waitingUsers
           \/ RoomsOf(activeRooms, sockUser[last'.sock]) # {})
       => (sent' = {} /\ UNCHANGED serverState)]_vars

\* a member of a room asked again on the socket of its member record, or a user who
\* has been waiting since an earlier clock reading asked again: nothing was sent
C21_Witness ==
    /\ last.op = "find_partner"
    /\ sent = {}
    /\ \/ \E r \in Rooms : \E m \in Members(r) :
              m.id = sockUser[last.sock] /\ m.socketId = last.sock
       \/ /\ sockUser[last.sock] \in DOMAIN waitingUsers
          /\ ~waitingUsers[sockUser[last.sock]].fresh
          /\ waitingUsers[sockUser[last.sock]].socketId = last.sock

\* C22: skip from a user who is neither a member of a room nor in waitingUsers leaves
\* tokens, waitingUsers, queue, activeRooms and userCount as they are and sends nothing.
C22_IdleSkipIsNoOp ==
    [][(/\ last'.op = "skip"
        /\ sockUser[last'.sock] \notin DOMAIN waitingUsers
        /\ RoomsOf(activeRooms, sockUser[last'.sock]) = {})
       => (sent' = {} /\ UNCHANGED serverState)]_vars

\* an idle user skipped while another user was waiting: the waiter is still queued
C22_Witness ==
    /\ last.op = "skip"
    /\ sent = {}
    /\ RoomsOf(activeRooms, sockUser[last.sock]) = {}
    /\ Len(queue) = 1
    /\ queue[1] # sockUser[last.sock]
    /\ queue[1] \in DOMAIN waitingUsers
    /\ waitingUsers[queue[1]].socketId \in connected \ {last.sock}

\* C23: after skip by a member of room R, R is gone from activeRooms, the tokens of
\* both members have roomId null, the partner, if it has an open socket (one its token
\* is bound to or one that acts under its id), has been sent the one partner_skipped
\* of the step on such a socket, and neither member is in waitingUsers or in a room,
\* so that find_partner from either of them gets past its guards.
C23_SkipEndsRoom ==
    [][(/\ last'.op = "skip"
        /\ RoomsOf(activeRooms, sockUser[last'.sock]) # {})
       => LET u == sockUser[last'.sock]
              r == Min(RoomsOf(activeRooms, u))
              ids == {activeRooms[r].user1.id, activeRooms[r].user2.id}
              partner == PartnerOf(activeRooms[r], u)
              attached == (BoundSockets(partner.id) \cap connected)
                              \cup {s \in connected : sockUser[s] = partner.id}
              skipped == {m \in sent' : m.type = "partner_skipped"}
          IN /\ r \notin DOMAIN activeRooms'
             /\ \A t \in DOMAIN tokenToUser' :
                    tokenToUser'[t].userId \in ids => tokenToUser'[t].roomId = Null
             /\ attached # {} =>
                    \E ps \in attached : skipped = {Msg(ps, "partner_skipped", Null, Null, "", Null)}
             /\ Cardinality(skipped) <= 1
             /\ \A m \in ids :
                    /\ m \notin DOMAIN waitingUsers'
                    /\ RoomsOf(activeRooms', m) = {}]_vars

\* C24: an offer, answer or ice-candidate from a member of a room is forwarded to the
\* partner of the sender's own room, whatever room id the frame carries, when the
\* partner's socket is open.
C24_RoomFieldAdvisory ==
    [][(/\ last'.op \in SignalKinds
        /\ RoomsOf(activeRooms, sockUser[last'.sock]) # {})
       => LET u == sockUser[last'.sock]
              r == Min(RoomsOf(activeRooms, u))
              partner == PartnerOf(activeRooms[r], u)
          IN partner.socketId \in connected =>
                 sent' = {Msg(partner.socketId, last'.op, Null, u, Payload, Null)}]_vars

\* the step presented a token that tokenToUser does not hold
UnknownTokenStep(op) ==
    /\ last'.op = op
    /\ last'.arg # Null
    /\ last'.arg \notin DOMAIN tokenToUser

\* every identity, room and waiting entry that existed is as it was
ExistingUntouched ==
    /\ \A t \in DOMAIN tokenToUser : t \in DOMAIN tokenToUser' /\ tokenToUser'[t] = tokenToUser[t]
    /\ \A q \in connected : q \in connected' /\ sockUser'[q] = sockUser[q]
    /\ UNCHANGED <<waitingUsers, queue, activeRooms, reapers>>

\* C25 (as stated): a connection or a reconnect_user presenting a token that tokenToUser
\* does not hold changes no existing identity, room or waiting entry, and the client is
\* sent reconnect_failed.
C25_UnknownTokenReconnectFailed ==
    [][(UnknownTokenStep("connection") \/ UnknownTokenStep("reconnect_user"))
       => /\ ExistingUntouched
          /\ Msg(last'.sock, "reconnect_failed", Null, Null, "", Null) \in sent']_vars

\* C25 (amended): a reconnect_user presenting an unknown token changes nothing and is
\* answered with reconnect_failed alone; a connection presenting an unknown token changes
\* no existing identity, room or waiting entry, mints a user id and token no entry had,
\* and is answered with welcome carrying them and no reconnect_failed.
C25_UnknownTokenTreatedAsNone ==
    [][/\ UnknownTokenStep("reconnect_user")
          => /\ UNCHANGED serverState
             /\ sent' = {Msg(last'.sock, "reconnect_failed", Null, Null, "", Null)}
       /\ UnknownTokenStep("connection")
          => LET s == last'.sock
                 minted == DOMAIN tokenToUser' \ DOMAIN tokenToUser
             IN /\ ExistingUntouched
                /\ s \notin connected /\ s \in connected'
                /\ \E t \in minted :
                       /\ minted = {t}
                       /\ t # last'.arg
                       /\ tokenToUser'[t].socketId = s
                       /\ tokenToUser'[t].roomId = Null
                       /\ tokenToUser'[t].userId = sockUser'[s]
                       /\ \A o \in DOMAIN tokenToUser : tokenToUser[o].userId # sockUser'[s]
                       /\ \A q \in connected : sockUser[q] # sockUser'[s]
                       /\ Msg(s, "welcome", Null, sockUser'[s], "", t) \in sent'
                /\ \A m \in sent' : m.type # "reconnect_failed"]_vars

\* a connection presented a token that was minted earlier and has expired, while
\* another identity is held, and got a fresh one
C25_Witness ==
    /\ last.op = "connection"
    /\ last.arg \in usedIds \ {sockUser[last.sock]}
    /\ last.arg \notin DOMAIN tokenToUser
    /\ Cardinality(DOMAIN tokenToUser) >= 2
    /\ \E m \in sent : m.type = "welcome" /\ m.to = last.sock

\* C26: join_room naming a room id that activeRooms does not hold is answered with
\* join_failed, reason no_room; join_room from a user who is not a member of the named
\* room is answered with join_failed, reason not_authorized; neither changes any store.
C26_JoinRoomRefused ==
    [][last'.op = "join_room"
       => LET s == last'.sock
              r == last'.arg
          IN /\ r \notin DOMAIN activeRooms
                => /\ sent' = {Msg(s, "join_failed", Null, Null, "no_room", Null)}
                   /\ UNCHANGED serverState
             /\ (r \in DOMAIN activeRooms /\ ~IsMember(activeRooms[r], sockUser[s]))
                => /\ sent' = {Msg(s, "join_failed", Null, Null, "not_authorized", Null)}
                   /\ UNCHANGED serverState]_vars

\* an outsider asked to join a room whose two members are both attached
C26_Witness ==
    /\ last.op = "join_room"
    /\ last.arg \in DOMAIN activeRooms
    /\ ~IsMember(activeRooms[last.arg], sockUser[last.sock])
    /\ \A m \in Members(last.arg) : m.socketId \in connected /\ m.socketId # last.sock
    /\ sent = {Msg(last.sock, "join_failed", Null, Null, "not_authorized", Null)}

\* C27: join_room by a member of the named room puts the calling socket in that member's
\* record and replies room_joined with the room id, the partner's user id and the role
\* of the member's record; the other member's record and every other store stay as
\* they were.
C27_JoinRoomRebindsMember ==
    [][(/\ last'.op = "join_room"
        /\ last'.arg \in DOMAIN activeRooms
        /\ IsMember(activeRooms[last'.arg], sockUser[last'.sock]))
       => LET s == last'.sock
              r == last'.arg
              u == sockUser[s]
              meFirst == activeRooms[r].user1.id = u
              me == IF meFirst THEN activeRooms[r].user1 ELSE activeRooms[r].user2
              other == IF meFirst THEN activeRooms[r].user2 ELSE activeRooms[r].user1
              meAfter == IF meFirst THEN activeRooms'[r].user1 ELSE activeRooms'[r].user2
              otherAfter == IF meFirst THEN activeRooms'[r].user2 ELSE activeRooms'[r].user1
          IN /\ DOMAIN activeRooms' = DOMAIN activeRooms
             /\ meAfter = [me EXCEPT !.socketId = s]
             /\ otherAfter = other
             /\ \A o \in DOMAIN activeRooms \ {r} : activeRooms'[o] = activeRooms[o]
             /\ sent' = {Msg(s, "room_joined", r, other.id, RoleName(me), Null)}
             /\ UNCHANGED <<connected, sockUser, usedIds, tokenToUser, waitingUsers, queue,
                            nextRoom, userCount, reapers>>]_vars

\* the responder of a room joined it from a socket that took the identity over with
\* reconnect_user, while the initiator's record holds another open socket
C27_Witness ==
    /\ last.op = "join_room"
    /\ last.arg \in DOMAIN activeRooms
    /\ LET room == activeRooms[last.arg]
       IN /\ room.user2.id = sockUser[last.sock]
          /\ room.user2.socketId = last.sock
          /\ room.user1.socketId \in connected \ {last.sock}
          /\ sent = {Msg(last.sock, "room_joined", last.arg, room.user1.id, "responder", Null)}
    /\ regime = "crowd"
    /\ sockUser[last.sock] # last.sock

\* the signaling frames among a set of frames
Forwarded(frames) == {m \in frames : m.type \in SignalKinds}

\* C28: room_assigned is sent to each member of a room before any offer, answer or
\* ice-candidate of that room is forwarded to that member. A frame is forwarded only by
\* a signaling step naming a room that is already in activeRooms, and only to the socket
\* of a member record of that room; a room enters activeRooms only under a room id never
\* used before, in a step that sends room_assigned for it to the sockets of both member
\* records and forwards nothing; and the member ids of a room never change.
C28_AssignedBeforeForwarded ==
    [][/\ \A m \in Forwarded(sent') :
              /\ last'.op = m.type
              /\ last'.arg \in DOMAIN activeRooms
              /\ \E mem \in Members(last'.arg) : mem.socketId = m.to
       /\ \A r \in DOMAIN activeRooms' \ DOMAIN activeRooms :
              LET room == activeRooms'[r]
              IN /\ r = nextRoom /\ nextRoom' = r + 1
                 /\ \E a \in sent' : /\ a.type = "room_assigned" /\ a.room = r
                                     /\ a.to = room.user1.socketId /\ a.peer = room.user2.id
                 /\ \E a \in sent' : /\ a.type = "room_assigned" /\ a.room = r
                                     /\ a.to = room.user2.socketId /\ a.peer = room.user1.id
                 /\ Forwarded(sent') = {}
       /\ \A r \in DOMAIN activeRooms \cap DOMAIN activeRooms' :
              /\ activeRooms'[r].user1.id = activeRooms[r].user1.id
              /\ activeRooms'[r].user2.id = activeRooms[r].user2.id
       /\ nextRoom' >= nextRoom
       /\ \A r \in DOMAIN activeRooms' : r < nextRoom']_vars

\* a frame of the responder was forwarded to the initiator's socket and to nothing
\* else, while a third socket is open
C28_Witness ==
    /\ last.op \in SignalKinds
    /\ last.arg \in DOMAIN activeRooms
    /\ LET room == activeRooms[last.arg]
       IN /\ room.user2.id = sockUser[last.sock]
          /\ sent = {Msg(room.user1.socketId, last.op, Null, room.user2.id, Payload, Null)}
          /\ room.user1.socketId \notin {last.sock, room.user2.socketId}
          /\ Cardinality(connected) = 3
          /\ regime = "crowd"

\* C29: when the socket of a room member disconnects while the other member is attached
\* (an open socket holds a token of the other member or acts under the other member's
\* user id), the other member is sent
\* partner_disconnected with the room id and the departing user's id on an attached
\* socket, and the room stays in activeRooms in that step.
C29_PartnerToldOnDisconnect ==
    [][(/\ last'.op = "disconnect"
        /\ RoomsOf(activeRooms, sockUser[last'.sock]) # {})
       => LET u == sockUser[last'.sock]
              r == Min(RoomsOf(activeRooms, u))
              partner == PartnerOf(activeRooms[r], u)
              attached == (BoundSockets(partner.id) \cap connected')
                              \cup {s \in connected' : sockUser'[s] = partner.id}
          IN /\ r \in DOMAIN activeRooms'
             /\ activeRooms'[r] = activeRooms[r]
             /\ attached # {} =>
                    \E ps \in attached :
                        Msg(ps, "partner_disconnected", r, u, "", Null) \in sent']_vars

\* C30: the relay forwards the signaling frames of a sender to the other member of the
\* room in the order it receives them. The step that receives a frame emits at most one
\* signaling frame: that frame, with its kind, payload and the sender's id, to the socket
\* of the partner's record; no other step emits a signaling frame, so none is held back,
\* repeated or overtaken.
C30_RelayKeepsOrder ==
    [][/\ last'.op \notin SignalKinds => Forwarded(sent') = {}
       /\ last'.op \in SignalKinds =>
              LET u == sockUser[last'.sock]
                  r == last'.arg
              IN /\ Cardinality(sent') <= 1
                 /\ \A m \in sent' :
                        /\ r \in DOMAIN activeRooms
                        /\ IsMember(activeRooms[r], u)
                        /\ m = Msg(PartnerOf(activeRooms[r], u).socketId, last'.op,
                                   Null, u, Payload, Null)
                        /\ m.to \in connected
                 /\ UNCHANGED serverState]_vars

\* the initiator's ice-candidate reached the responder's socket
C30_Witness ==
    /\ last.op = "ice-candidate"
    /\ last.arg \in DOMAIN activeRooms
    /\ LET room == activeRooms[last.arg]
       IN /\ room.user1.id = sockUser[last.sock]
          /\ room.user1.socketId = last.sock
          /\ room.user2.socketId \in connected \ {last.sock}
          /\ sent = {Msg(room.user2.socketId, "ice-candidate", Null, room.user1.id, Payload, Null)}

\* ------------------------------------------------------------------ periodic status log
\* setInterval(() => console.log(status), 30000): reads the stores, writes none
StatusLog ==
    /\ ClockRuns
    /\ last' = Step("status", Null, Null)
    /\ sent' = {}
    /\ UNCHANGED <<connected, nextSocket, sockUser, usedIds, tokenToUser, waitingUsers,
                   queue, activeRooms, nextRoom, userCount, rebinds, reapers, regime, closing>>

SweepNext == Next \/ StatusLog

\* runs in which the status interval keeps firing: wall time grows without bound
SweepSpec ==
    /\ ClockInit
    /\ [][SweepNext]_vars
    /\ WF_vars(\E t \in DOMAIN tokenToUser : TokenTimerFire(t))
    /\ WF_vars(RoomReaperFire)
    /\ WF_vars(Tick)
    /\ WF_vars(StatusLog)

\* C31: a room older than the hard room-age cap is eventually deleted by the periodic
\* sweep, whether or not its members are attached. While the interval keeps firing the
\* age of a room passes every cap, so every room is eventually out of activeRooms.
C31_AgedRoomSwept ==
    \A r \in RoomIds : [](r \in Rooms => <>(r \notin Rooms))

\* the open sockets of user u: a token of u is bound to them or they act under u's id
SocketsOf(u) ==
    (BoundSockets(u) \cap connected) \cup {s \in connected : sockUser[s] = u}

\* C32: an offer, answer or ice-candidate from a member of the room it names reaches no
\* socket but an open socket of the other member, which is not the socket that sent
\* it, carries the user id the server gave the sending socket, and when the other
\* member has no open socket nothing is sent and no store changes.
C32_RelayOnlyToPartner ==
    [][(/\ last'.op \in SignalKinds
        /\ last'.arg \in DOMAIN activeRooms
        /\ IsMember(activeRooms[last'.arg], sockUser[last'.sock]))
       => LET u == sockUser[last'.sock]
              partner == PartnerOf(activeRooms[last'.arg], u)
          IN /\ \A m \in sent' :
                    /\ m.to \in SocketsOf(partner.id) \ {last'.sock}
                    /\ m.type = last'.op
                    /\ m.peer = u
             /\ SocketsOf(partner.id) = {} => sent' = {}
             /\ UNCHANGED serverState]_vars

\* C33: a request_reoffer naming a room whose members do not include the sender
\* delivers nothing.
C33_ReofferMembersOnly ==
    [][(/\ last'.op = "request_reoffer"
        /\ last'.arg \in DOMAIN activeRooms
        /\ ~IsMember(activeRooms[last'.arg], sockUser[last'.sock]))
       => sent' = {}]_vars

\* C34: a token leaves tokenToUser only in the step of its own cleanup timer and only
\* if it has no socketId and no roomId when the timer fires; a connection or
\* reconnect_user that presents a token tokenToUser holds binds it to the socket and
\* leaves it without a pending timer.
C34_TokenReaperGuard ==
    [][/\ \A t \in DOMAIN tokenToUser \ DOMAIN tokenToUser' :
              /\ last'.op = "token_timer"
              /\ last'.arg = t
              /\ tokenToUser[t].socketId = Null
              /\ tokenToUser[t].roomId = Null
       /\ (/\ last'.op \in {"connection", "reconnect_user"}
           /\ last'.arg \in DOMAIN tokenToUser)
          => /\ last'.arg \in DOMAIN tokenToUser'
             /\ tokenToUser'[last'.arg].socketId = last'.sock
             /\ tokenToUser'[last'.arg].cleanupTimer = NoTimer]_vars

\* the timer of a detached token fired while the token still had a room: the token
\* stays and has no timer
C34_Witness ==
    /\ last.op = "token_timer"
    /\ last.arg \in DOMAIN tokenToUser
    /\ tokenToUser[last.arg].socketId = Null
    /\ tokenToUser[last.arg].roomId \in DOMAIN activeRooms
    /\ tokenToUser[last.arg].cleanupTimer = NoTimer

\* C35: after the disconnect of a socket no entry of waitingUsers holds that socket,
\* and every id left in the queue has an entry in waitingUsers.
C35_DisconnectClearsWaiting ==
    [][last'.op = "disconnect"
       => /\ \A u \in DOMAIN waitingUsers' : waitingUsers'[u].socketId # last'.sock
          /\ \A i \in DOMAIN queue' :
                 queue'[i] \in DOMAIN waitingUsers' =>
                     waitingUsers'[queue'[i]].socketId # last'.sock]_vars

\* C36: waitingUsers never holds more than one user and the queue never more than one
\* id.
C36_AtMostOneWaiting ==
    /\ Cardinality(DOMAIN waitingUsers) <= 1
    /\ Len(queue) <= 1

\* a find_partner shifted a stale id off the queue and enqueued the requester: one
\* user waits, while two more sockets are open
C36_Witness ==
    /\ last.op = "find_partner"
    /\ last.arg = 1
    /\ Len(queue) = 1
    /\ queue[1] = sockUser[last.sock]
    /\ DOMAIN waitingUsers = {queue[1]}
    /\ Cardinality(connected) >= 2

\* C37: no room has both member records on the same socket.
C37_NoSelfPairedSocket ==
    \A r \in Rooms : activeRooms[r].user1.socketId # activeRooms[r].user2.socketId

\* ------------------------------------------------------------------ the ws server
\* The second server of src/server/server.js (lines 356-830) keeps stores of the same
\* names, so it is modelled over the same variables: connected holds the sockets with
\* readyState OPEN and closing those with readyState CLOSING, every other socket made
\* so far is CLOSED; sockUser is ws.userId (kept for
\* closed sockets too, their records stay in rooms), ws.token is the token of
\* ws.userId, queue is the key order of the waitingUsers Map, and reapers, which this
\* server does not have, holds the userConnections Map as <<[user, socket]>> in key
\* order.
WsSockets == 3
\* rooms the ws server makes in one run
WsRooms == 1
\* the token of a reconnect or join frame: none, or one this server has sent
WsTokens == {Null} \cup usedIds
WsSignalKinds == {"offer", "answer", "candidate"}
userConnections == reapers

\* Map.set on the userConnections sequence
WsConnSet(conns, userId, s) ==
    IF \E i \in DOMAIN conns : conns[i].user = userId
    THEN [i \in DOMAIN conns |->
             IF conns[i].user = userId THEN [user |-> userId, socket |-> s] ELSE conns[i]]
    ELSE Append(conns, [user |-> userId, socket |-> s])

\* Map.delete on the userConnections sequence
WsConnDelete(conns, userId) == SelectSeq(conns, LAMBDA c : c.user # userId)

\* findPartner: the first waiting user that is not the caller
WsFindPartnerOf(order, userId) ==
    LET others == SelectSeq(order, LAMBDA u : u # userId)
    IN IF others = <<>> THEN Null ELSE Head(others)

\* tokenToUser.get(socket.token).roomId = roomId, for the token of one socket
WsSetRoomOfSocket(tokens, sockets, s, roomId) ==
    IF s \in DOMAIN sockets /\ sockets[s] \in DOMAIN tokens
    THEN [tokens EXCEPT ![sockets[s]].roomId = roomId]
    ELSE tokens

\* cleanupUser(userId) on the stores st = [waiting, order, rooms, tokens, conns, frames]
WsCleanupUser(st, userId, sockets, live) ==
    LET mine == RoomsOf(st.rooms, userId)
        roomId == Min(mine)
        otherUser == PartnerOf(st.rooms[roomId], userId)
    IN [waiting |-> cleanupWaitingSet(st.waiting, userId),
        order |-> SeqWithout(st.order, userId),
        rooms |-> IF mine = {} THEN st.rooms ELSE Remove(st.rooms, roomId),
        tokens |-> IF mine = {} THEN st.tokens
                   ELSE WsSetRoomOfSocket(st.tokens, sockets, otherUser.socketId, Null),
        conns |-> WsConnDelete(st.conns, userId),
        frames |-> IF mine # {} /\ otherUser.socketId \in live
                   THEN st.frames \cup
                        {Msg(otherUser.socketId, "partner_disconnected", Null, Null, "", Null)}
                   ELSE st.frames]

WsStores ==
    [waiting |-> waitingUsers, order |-> queue, rooms |-> activeRooms,
     tokens |-> tokenToUser, conns |-> userConnections, frames |-> {}]

WsInit ==
    /\ connected = {}
    /\ closing = {}
    /\ nextSocket = 1
    /\ sockUser = <<>>
    /\ usedIds = {}
    /\ tokenToUser = <<>>
    /\ waitingUsers = <<>>
    /\ queue = <<>>
    /\ activeRooms = <<>>
    /\ nextRoom = 1
    /\ userCount = 0
    /\ rebinds = 0
    /\ userConnections = <<>>
    /\ sent = {}
    /\ last = Step("init", Null, Null)
    /\ regime = "ws"

\* wss.on('connection')
WsConnection ==
    \E userId \in FreshIds(WsSockets) :
    LET s == nextSocket
        live == connected \cup {s}
    IN /\ nextSocket <= WsSockets
       /\ last' = Step("connection", s, Null)
       /\ connected' = live
       /\ nextSocket' = s + 1
       /\ sockUser' = sockUser @@ (s :> userId)
       /\ usedIds' = usedIds \cup {userId}
       /\ userConnections' = WsConnSet(userConnections, userId, s)
       /\ tokenToUser' = tokenToUser @@ (userId :> [userId |-> userId, socketId |-> s, roomId |-> Null])
       /\ userCount' = userCount + 1
       /\ sent' = broadcastUserCount(live, userCount + 1)
                  \cup {Msg(s, "welcome", Null, userId, "", userId)}
       /\ UNCHANGED <<waitingUsers, queue, activeRooms, nextRoom, rebinds, regime, closing>>

\* case 'reconnect'
WsReconnect(s, clientToken) ==
    LET entry == tokenToUser[clientToken]
        uid == entry.userId
    IN /\ s \in connected
       /\ last' = Step("reconnect", s, clientToken)
       /\ IF clientToken \in DOMAIN tokenToUser
          THEN /\ rebinds < MaxRebinds
               /\ rebinds' = rebinds + 1
               /\ tokenToUser' = [tokenToUser EXCEPT ![clientToken].socketId = s]
               /\ sockUser' = [sockUser EXCEPT ![s] = uid]
               /\ userConnections' = WsConnSet(userConnections, uid, s)
               /\ waitingUsers' = IF uid \in DOMAIN waitingUsers
                                  THEN [waitingUsers EXCEPT ![uid].socketId = s]
                                  ELSE waitingUsers
               /\ activeRooms' = [r \in DOMAIN activeRooms |-> RebindRoom(activeRooms[r], uid, s)]
               /\ sent' = {Msg(s, "reconnect_ok", entry.roomId, Null, "", Null)}
          ELSE /\ sent' = {Msg(s, "reconnect_failed", Null, Null, "", Null)}
               /\ UNCHANGED <<tokenToUser, sockUser, userConnections, waitingUsers, activeRooms, rebinds>>
       /\ UNCHANGED <<connected, nextSocket, usedIds, queue, nextRoom, userCount, regime, closing>>

\* case 'find_partner'
WsFindPartner(s) ==
    LET curUserId == sockUser[s]
        partnerId == WsFindPartnerOf(queue, curUserId)
        partnerData == waitingUsers[partnerId]
        roles == determineInitiator(curUserId, Now, partnerId, JoinTimeOf(partnerData))
        initiatorSocket == IF roles.initiator = curUserId THEN s ELSE partnerData.socketId
        responderSocket == IF roles.responder = curUserId THEN s ELSE partnerData.socketId
        roomId == nextRoom
    IN /\ s \in connected
       /\ last' = Step("find_partner", s, Null)
       /\ IF curUserId \in DOMAIN waitingUsers \/ RoomsOf(activeRooms, curUserId) # {}
          THEN /\ sent' = {}
               /\ UNCHANGED <<waitingUsers, queue, activeRooms, nextRoom, tokenToUser>>
          ELSE IF partnerId # Null
          THEN /\ nextRoom <= WsRooms
               /\ waitingUsers' = cleanupWaitingSet(waitingUsers, partnerId)
               /\ queue' = SeqWithout(queue, partnerId)
               /\ activeRooms' = activeRooms @@
                      (roomId :> MakeRoom(roles.initiator, initiatorSocket, roles.responder, responderSocket))
               /\ nextRoom' = roomId + 1
               /\ tokenToUser' = WsSetRoomOfSocket(
                                     WsSetRoomOfSocket(tokenToUser, sockUser, initiatorSocket, roomId),
                                     sockUser, responderSocket, roomId)
               /\ sent' = {Msg(x, "room_assigned", roomId, Null, "initiator", Null) :
                               x \in {initiatorSocket} \cap connected}
                          \cup {Msg(x, "room_assigned", roomId, Null, "responder", Null) :
                                    x \in {responderSocket} \cap connected}
          ELSE /\ waitingUsers' = (curUserId :> [socketId |-> s, fresh |-> TRUE]) @@ waitingUsers
               /\ queue' = Append(queue, curUserId)
               /\ sent' = {}
               /\ UNCHANGED <<activeRooms, nextRoom, tokenToUser>>
       /\ UNCHANGED <<connected, nextSocket, sockUser, usedIds, userCount, rebinds, userConnections, regime, closing>>

\* case 'join'
WsJoin(s, roomToJoin, clientToken) ==
    LET room == activeRooms[roomToJoin]
        known == clientToken \in DOMAIN tokenToUser
        entry == tokenToUser[clientToken]
        userId == IF known THEN entry.userId ELSE sockUser[s]
        rebound == known /\ IsMember(room, entry.userId)
        slot == IF room.user1.id = userId THEN room.user1 ELSE room.user2
    IN /\ s \in connected
       /\ last' = Step("join", s, roomToJoin)
       /\ IF roomToJoin \notin DOMAIN activeRooms
          THEN /\ sent' = {Msg(s, "join_failed", Null, Null, "no_room", Null)}
               /\ UNCHANGED <<sockUser, activeRooms, tokenToUser, userConnections, rebinds>>
          ELSE /\ IF known THEN rebinds < MaxRebinds /\ rebinds' = rebinds + 1
                           ELSE UNCHANGED rebinds
               /\ sockUser' = [sockUser EXCEPT ![s] = userId]
               /\ activeRooms' = IF rebound
                                 THEN [activeRooms EXCEPT ![roomToJoin] = RebindRoom(room, userId, s)]
                                 ELSE activeRooms
               /\ tokenToUser' = IF rebound
                                 THEN [tokenToUser EXCEPT ![clientToken].socketId = s]
                                 ELSE tokenToUser
               /\ userConnections' = IF rebound THEN WsConnSet(userConnections, userId, s)
                                     ELSE userConnections
               /\ sent' = IF IsMember(room, userId)
                          THEN {Msg(s, "room_assigned", roomToJoin, Null, RoleName(slot), Null)}
                          ELSE {Msg(s, "join_failed", Null, Null, "not_in_room", Null)}
       /\ UNCHANGED <<connected, nextSocket, usedIds, waitingUsers, queue, nextRoom, userCount, regime, closing>>

\* case 'skip'
WsSkip(s) ==
    LET curUserId == sockUser[s]
        mine == RoomsOf(activeRooms, curUserId)
        roomId == Min(mine)
        otherUser == PartnerOf(activeRooms[roomId], curUserId)
    IN /\ s \in connected
       /\ last' = Step("skip", s, Null)
       /\ IF mine # {}
          THEN /\ sent' = {Msg(x, "partner_skipped", Null, Null, "", Null) :
                               x \in {otherUser.socketId} \cap connected}
               /\ activeRooms' = Remove(activeRooms, roomId)
               /\ tokenToUser' = WsSetRoomOfSocket(
                                     WsSetRoomOfSocket(tokenToUser, sockUser, s, Null),
                                     sockUser, otherUser.socketId, Null)
          ELSE /\ sent' = {}
               /\ UNCHANGED <<activeRooms, tokenToUser>>
       /\ UNCHANGED <<connected, nextSocket, sockUser, usedIds, waitingUsers, queue, nextRoom,
                      userCount, rebinds, userConnections, regime, closing>>

\* case 'offer' / 'answer' / 'candidate': the frame goes on as it came
WsSignal(s, kind, roomId) ==
    LET targetRoom == activeRooms[roomId]
        senderId == sockUser[s]
        targetUser == IF targetRoom.user1.id = senderId THEN targetRoom.user2 ELSE targetRoom.user1
    IN /\ s \in connected
       /\ last' = Step(kind, s, roomId)
       /\ sent' = IF roomId \notin DOMAIN activeRooms THEN {}
                  ELSE IF targetUser.socketId \in connected
                  THEN {Msg(targetUser.socketId, kind, roomId, Null, Payload, Null)}
                  ELSE {}
       /\ UNCHANGED <<connected, nextSocket, sockUser, usedIds, tokenToUser, waitingUsers, queue,
                      activeRooms, nextRoom, userCount, rebinds, userConnections, regime, closing>>

\* The client's close frame or the end of its connection arrives: the ws library sets
\* readyState to CLOSING, and emits 'close' in a later turn of the event loop. No
\* handler of the server runs; frames of this socket are no longer read.
WsClosing(s) ==
    /\ s \in connected
    /\ last' = Step("closing", s, Null)
    /\ connected' = connected \ {s}
    /\ closing' = closing \cup {s}
    /\ sent' = {}
    /\ UNCHANGED <<nextSocket, sockUser, usedIds, tokenToUser, waitingUsers, queue, activeRooms,
                   nextRoom, userCount, rebinds, userConnections, regime>>

\* ws.on('close'): readyState is CLOSED when the handler runs
WsClose(s) ==
    LET live == connected
        after == WsCleanupUser(WsStores, sockUser[s], sockUser, live)
        count == IF userCount > 0 THEN userCount - 1 ELSE 0
    IN /\ s \in closing
       /\ last' = Step("close", s, Null)
       /\ closing' = closing \ {s}
       /\ waitingUsers' = after.waiting
       /\ queue' = after.order
       /\ activeRooms' = after.rooms
       /\ tokenToUser' = after.tokens
       /\ userConnections' = after.conns
       /\ userCount' = count
       /\ sent' = after.frames \cup broadcastUserCount(live, count)
       /\ UNCHANGED <<connected, nextSocket, sockUser, usedIds, nextRoom, rebinds, regime>>

\* the interval's loop over userConnections: cleanupUser for every socket with
\* readyState CLOSED, which is neither open (live) nor closing (leaving)
RECURSIVE WsCleanupStale(_, _, _, _, _)
WsCleanupStale(st, todo, sockets, live, leaving) ==
    IF todo = <<>> THEN st
    ELSE IF Head(todo).socket \in live \cup leaving
         THEN WsCleanupStale(st, Tail(todo), sockets, live, leaving)
         ELSE WsCleanupStale(WsCleanupUser(st, Head(todo).user, sockets, live),
                             Tail(todo), sockets, live, leaving)

\* setInterval(..., 30000): status log and cleanup of stale connections
WsInterval ==
    LET after == WsCleanupStale(WsStores, userConnections, sockUser, connected, closing)
    IN /\ \E i \in DOMAIN userConnections :
              userConnections[i].socket \notin connected \cup closing
       /\ last' = Step("interval", Null, Null)
       /\ waitingUsers' = after.waiting
       /\ queue' = after.order
       /\ activeRooms' = after.rooms
       /\ tokenToUser' = after.tokens
       /\ userConnections' = after.conns
       /\ sent' = after.frames
       /\ UNCHANGED <<connected, nextSocket, sockUser, usedIds, nextRoom, userCount, rebinds, regime, closing>>

\* a millisecond passes: the joinTime of who waits is no longer Date.now()
WsTick ==
    /\ \E u \in DOMAIN waitingUsers : waitingUsers[u].fresh
    /\ last' = Step("tick", Null, Null)
    /\ waitingUsers' = [u \in DOMAIN waitingUsers |-> [waitingUsers[u] EXCEPT !.fresh = FALSE]]
    /\ sent' = {}
    /\ UNCHANGED <<connected, nextSocket, sockUser, usedIds, tokenToUser, queue, activeRooms,
                   nextRoom, userCount, rebinds, userConnections, regime, closing>>

WsNext ==
    \/ WsConnection
    \/ \E s \in connected, tok \in WsTokens : WsReconnect(s, tok)
    \/ \E s \in connected : WsFindPartner(s)
    \/ \E s \in connected, r \in 1..WsRooms, tok \in WsTokens : WsJoin(s, r, tok)
    \/ \E s \in connected : WsSkip(s)
    \/ \E s \in connected, k \in WsSignalKinds, r \in 1..WsRooms : WsSignal(s, k, r)
    \/ \E s \in connected : WsClosing(s)
    \/ \E s \in closing : WsClose(s)
    \/ WsInterval
    \/ WsTick

WsSpec == WsInit /\ [][WsNext]_vars

\* C38: in the ws server, an offer, answer or candidate naming a room whose members do
\* not include the sender is forwarded to nobody.
C38_WsRelayMembersOnly ==
    [][(/\ last'.op \in WsSignalKinds
        /\ regime = "ws"
        /\ last'.arg \in DOMAIN activeRooms
        /\ ~IsMember(activeRooms[last'.arg], sockUser[last'.sock]))
       => sent' = {}]_vars

\* ------------------------------------------------------------------ the users/waitingQueue server
\* src/unnamed/part_005, modelled over the same variables: users is kept in
\* tokenToUser, waitingQueue in queue, rooms in activeRooms, and sockUser is the userId
\* variable of each connection's closure (Null before init). Time is relative: a
\* waitingSince or createdAt stamp holds the ticks since it was taken. Each room record
\* carries one field the code does not have, announced: the user room_assigned named
\* as initiator.
P5Sockets == 2
\* ticks a stamp is followed for
P5MaxAge == 2
\* maxAge of the old-room sweep, in ticks
P5RoomMaxAge == 1
\* waitingSince: null
NoStamp == -1
P5SignalKinds == {"offer", "answer", "ice_candidate", "chat_message"}
users == tokenToUser
waitingQueue == queue
rooms == activeRooms

\* a.waitingSince <= b.waitingSince on numbers or null (null compares as 0); a and b
\* are ticks since the stamp, so the earlier stamp is the larger one
StampLE(a, b) ==
    IF a = NoStamp THEN TRUE
    ELSE IF b = NoStamp THEN FALSE
    ELSE a >= b

isInitiatorFlag(b) == IF b THEN "initiator" ELSE "responder"

\* io.emit('user_count', { count: users.size })
P5UserCount(live, us) == broadcastUserCount(live, Cardinality(DOMAIN us))

P5Init ==
    /\ connected = {}
    /\ closing = {}
    /\ nextSocket = 1
    /\ sockUser = <<>>
    /\ usedIds = {}
    /\ users = <<>>
    /\ waitingUsers = <<>>
    /\ waitingQueue = <<>>
    /\ rooms = <<>>
    /\ nextRoom = 1
    /\ userCount = 0
    /\ rebinds = 0
    /\ reapers = <<>>
    /\ sent = {}
    /\ last = Step("init", Null, Null)
    /\ regime = "users"

\* io.on('connection'): let userId = null
P5Connection ==
    /\ nextSocket <= P5Sockets
    /\ last' = Step("connection", nextSocket, Null)
    /\ connected' = connected \cup {nextSocket}
    /\ nextSocket' = nextSocket + 1
    /\ sockUser' = sockUser @@ (nextSocket :> Null)
    /\ sent' = {}
    /\ UNCHANGED <<usedIds, tokenToUser, waitingUsers, queue, activeRooms, nextRoom,
                   userCount, rebinds, reapers, regime, closing>>

\* socket.on('init')
P5InitUser(s) ==
    /\ s \in connected
    /\ last' = Step("init_user", s, Null)
    /\ IF sockUser[s] # Null /\ sockUser[s] \in DOMAIN users
       THEN /\ sent' = {Msg(s, "init_success", Null, sockUser[s], "", sockUser[s])}
            /\ UNCHANGED <<sockUser, usedIds, tokenToUser>>
       ELSE \E userId \in FreshIds(P5Sockets) :
                LET us == (userId :> [socketId |-> s, roomId |-> Null,
                                      waitingSince |-> NoStamp]) @@ users
                IN /\ sockUser' = [sockUser EXCEPT ![s] = userId]
                   /\ usedIds' = usedIds \cup {userId}
                   /\ users' = us
                   /\ sent' = {Msg(s, "init_success", Null, userId, "", userId)}
                              \cup P5UserCount(connected, us)
    /\ UNCHANGED <<connected, nextSocket, waitingUsers, queue, activeRooms, nextRoom,
                   userCount, rebinds, reapers, regime, closing>>

\* the while loop of find_partner: shift ids until one is a user other than the caller
RECURSIVE P5ShiftPartner(_, _, _)
P5ShiftPartner(q, us, userId) ==
    IF q = <<>> THEN [partner |-> Null, queue |-> q]
    ELSE IF Head(q) \notin DOMAIN us THEN P5ShiftPartner(Tail(q), us, userId)
    ELSE IF Head(q) = userId THEN P5ShiftPartner(Tail(q), us, userId)
    ELSE [partner |-> Head(q), queue |-> Tail(q)]

\* waitingQueue.indexOf(id): the first position of id, counted from 1; 0 when absent
P5IndexOf(q, id) ==
    IF \E i \in DOMAIN q : q[i] = id
    THEN CHOOSE i \in DOMAIN q : q[i] = id /\ \A j \in 1..(i - 1) : q[j] # id
    ELSE 0

\* if (idx > -1) waitingQueue.splice(idx, 1): a position past the end removes nothing
P5Splice(q, idx) ==
    IF idx \in DOMAIN q THEN SubSeq(q, 1, idx - 1) \o SubSeq(q, idx + 1, Len(q)) ELSE q

\* createRoom(user1Id, user2Id); q is waitingQueue after the shifts of the caller's
\* loop. Both positions are read before the first splice, so the second splice uses
\* the position its id had in q.
createRoom(user1Id, user2Id, q) ==
    LET roomId == nextRoom
        user1 == users[user1Id]
        user2 == users[user2Id]
        idx1 == P5IndexOf(q, user1Id)
        idx2 == P5IndexOf(q, user2Id)
        initiator == IF StampLE(user1.waitingSince, user2.waitingSince) THEN user1Id ELSE user2Id
        us == [users EXCEPT ![user1Id].roomId = roomId, ![user2Id].roomId = roomId]
    IN IF user1Id \notin DOMAIN users \/ user2Id \notin DOMAIN users
       THEN /\ waitingQueue' = q
            /\ sent' = {}
            /\ UNCHANGED <<users, rooms, nextRoom>>
       ELSE /\ nextRoom <= MaxRooms
            /\ waitingQueue' = P5Splice(P5Splice(q, idx1), idx2)
            /\ rooms' = rooms @@ (roomId :> [user1Id |-> user1Id, user2Id |-> user2Id,
                                               createdAt |-> 0, announced |-> initiator])
            /\ nextRoom' = roomId + 1
            /\ users' = us
            /\ sent' = {Msg(x, "room_assigned", roomId, user2Id, isInitiatorFlag(initiator = user1Id), Null) :
                            x \in {user1.socketId} \cap connected}
                       \cup {Msg(x, "room_assigned", roomId, user1Id, isInitiatorFlag(initiator = user2Id), Null) :
                                 x \in {user2.socketId} \cap connected}
                       \cup P5UserCount(connected, us)

\* socket.on('find_partner')
P5FindPartner(s) ==
    LET userId == sockUser[s]
        user == users[userId]
        shifted == P5ShiftPartner(waitingQueue, users, userId)
        us == [users EXCEPT ![userId].waitingSince = 0]
    IN /\ s \in connected
       /\ last' = Step("find_partner", s, Null)
       /\ IF userId = Null \/ userId \notin DOMAIN users
          THEN /\ sent' = {Msg(s, "error", Null, Null, "", Null)}
               /\ UNCHANGED <<tokenToUser, queue, activeRooms, nextRoom>>
          ELSE IF user.roomId # Null \/ userId \in SeqElems(waitingQueue)
          THEN /\ sent' = {}
               /\ UNCHANGED <<tokenToUser, queue, activeRooms, nextRoom>>
          ELSE IF shifted.partner # Null
          THEN createRoom(shifted.partner, userId, shifted.queue)
          ELSE /\ users' = us
               /\ waitingQueue' = Append(shifted.queue, userId)
               /\ sent' = {Msg(s, "searching", Null, Null, "", Null)} \cup P5UserCount(connected, us)
               /\ UNCHANGED <<activeRooms, nextRoom>>
       /\ UNCHANGED <<connected, nextSocket, sockUser, usedIds, waitingUsers, userCount,
                      rebinds, reapers, regime, closing>>

\* socket.on('join_room')
P5JoinRoom(s, roomId) ==
    LET userId == sockUser[s]
        room == rooms[roomId]
        partnerId == IF room.user1Id = userId THEN room.user2Id ELSE room.user1Id
    IN /\ s \in connected
       /\ last' = Step("join_room", s, roomId)
       /\ sent' = IF userId = Null THEN {}
                  ELSE IF roomId \notin DOMAIN rooms
                  THEN {Msg(s, "room_error", Null, Null, "Room not found", Null)}
                  ELSE IF room.user1Id # userId /\ room.user2Id # userId
                  THEN {Msg(s, "room_error", Null, Null, "Not authorized for this room", Null)}
                  ELSE {Msg(s, "room_joined", roomId, partnerId,
                            isInitiatorFlag(room.user1Id = userId), Null)}
       /\ UNCHANGED <<connected, nextSocket, sockUser, usedIds, tokenToUser, waitingUsers, queue,
                      activeRooms, nextRoom, userCount, rebinds, reapers, regime, closing>>

\* the room part of skip and of cleanupUser: tell the partner, clear the partner's
\* roomId, delete the room; left tells whether the user's room was found
P5LeaveRoom(userId, kind, live) ==
    LET user == users[userId]
        room == rooms[user.roomId]
        partnerId == IF room.user1Id = userId THEN room.user2Id ELSE room.user1Id
        hasPartner == partnerId \in DOMAIN users
    IN IF user.roomId = Null \/ user.roomId \notin DOMAIN rooms
       THEN [users |-> users, rooms |-> rooms, frames |-> {}, left |-> FALSE]
       ELSE [users |-> IF hasPartner THEN [users EXCEPT ![partnerId].roomId = Null] ELSE users,
             rooms |-> Remove(rooms, user.roomId),
             frames |-> IF hasPartner /\ users[partnerId].socketId \in live
                        THEN {Msg(users[partnerId].socketId, kind, Null, Null, "", Null)}
                        ELSE {},
             left |-> TRUE]

\* socket.on('skip')
P5Skip(s) ==
    LET userId == sockUser[s]
        after == P5LeaveRoom(userId, "partner_skipped", connected)
        us == [after.users EXCEPT ![userId].roomId = IF after.left THEN Null ELSE @,
                                  ![userId].waitingSince = NoStamp]
    IN /\ s \in connected
       /\ last' = Step("skip", s, Null)
       /\ IF userId = Null \/ userId \notin DOMAIN users
          THEN /\ sent' = {}
               /\ UNCHANGED <<tokenToUser, queue, activeRooms>>
          ELSE /\ users' = us
               /\ rooms' = after.rooms
               /\ waitingQueue' = SeqWithout(waitingQueue, userId)
               /\ sent' = after.frames \cup P5UserCount(connected, us)
       /\ UNCHANGED <<connected, nextSocket, sockUser, usedIds, waitingUsers, nextRoom,
                      userCount, rebinds, reapers, regime, closing>>

\* socket.on('offer' | 'answer' | 'ice_candidate' | 'chat_message')
P5Signal(s, kind, roomId) ==
    LET userId == sockUser[s]
        room == rooms[roomId]
        partnerId == IF room.user1Id = userId THEN room.user2Id ELSE room.user1Id
    IN /\ s \in connected
       /\ last' = Step(kind, s, roomId)
       /\ sent' = IF userId = Null \/ roomId \notin DOMAIN rooms THEN {}
                  ELSE IF partnerId \in DOMAIN users /\ users[partnerId].socketId \in connected
                  THEN {Msg(users[partnerId].socketId, kind, Null, userId, Payload, Null)}
                  ELSE {}
       /\ UNCHANGED <<connected, nextSocket, sockUser, usedIds, tokenToUser, waitingUsers, queue,
                      activeRooms, nextRoom, userCount, rebinds, reapers, regime, closing>>

\* socket.on('disconnect'): cleanupUser(userId)
P5Disconnect(s) ==
    LET userId == sockUser[s]
        live == connected \ {s}
        after == P5LeaveRoom(userId, "partner_disconnected", live)
        us == Remove(after.users, userId)
    IN /\ s \in connected
       /\ last' = Step("disconnect", s, Null)
       /\ connected' = live
       /\ sockUser' = Remove(sockUser, s)
       /\ IF userId = Null \/ userId \notin DOMAIN users
          THEN /\ sent' = {}
               /\ UNCHANGED <<tokenToUser, queue, activeRooms>>
          ELSE /\ users' = us
               /\ rooms' = after.rooms
               /\ waitingQueue' = SeqWithout(waitingQueue, userId)
               /\ sent' = after.frames \cup P5UserCount(live, us)
       /\ UNCHANGED <<nextSocket, usedIds, waitingUsers, nextRoom, userCount, rebinds, reapers, regime, closing>>

\* setInterval: delete the rooms older than maxAge
P5Sweep ==
    LET old == {r \in DOMAIN rooms : rooms[r].createdAt > P5RoomMaxAge}
    IN /\ old # {}
       /\ last' = Step("sweep", Null, Null)
       /\ rooms' = [r \in DOMAIN rooms \ old |-> rooms[r]]
       /\ sent' = {}
       /\ UNCHANGED <<connected, nextSocket, sockUser, usedIds, tokenToUser, waitingUsers, queue,
                      nextRoom, userCount, rebinds, reapers, regime, closing>>

\* one unit of time passes: every stamp is one tick older
P5Tick ==
    /\ \A u \in DOMAIN users : users[u].waitingSince < P5MaxAge
    /\ \A r \in DOMAIN rooms : rooms[r].createdAt < P5MaxAge
    /\ \/ \E u \in DOMAIN users : users[u].waitingSince # NoStamp
       \/ rooms # <<>>
    /\ last' = Step("tick", Null, Null)
    /\ users' = [u \in DOMAIN users |->
                    IF users[u].waitingSince = NoStamp THEN users[u]
                    ELSE [users[u] EXCEPT !.waitingSince = @ + 1]]
    /\ rooms' = [r \in DOMAIN rooms |-> [rooms[r] EXCEPT !.createdAt = @ + 1]]
    /\ sent' = {}
    /\ UNCHANGED <<connected, nextSocket, sockUser, usedIds, waitingUsers, queue, nextRoom,
                   userCount, rebinds, reapers, regime, closing>>

P5Next ==
    \/ P5Connection
    \/ \E s \in connected : P5InitUser(s)
    \/ \E s \in connected : P5FindPartner(s)
    \/ \E s \in connected, r \in RoomIds : P5JoinRoom(s, r)
    \/ \E s \in connected : P5Skip(s)
    \/ \E s \in connected, k \in P5SignalKinds, r \in RoomIds : P5Signal(s, k, r)
    \/ \E s \in connected : P5Disconnect(s)
    \/ P5Sweep
    \/ P5Tick

P5Spec == P5Init /\ [][P5Next]_vars

\* C39: in the users/waitingQueue server, the isInitiator a member is sent in
\* room_joined is the isInitiator that member was sent in room_assigned when the room
\* was created.
C39_JoinedRoleIsAssignedRole ==
    [][(last'.op = "join_room" /\ regime = "users")
       => \A m \in sent' :
              m.type = "room_joined" =>
                  m.role = isInitiatorFlag(rooms[m.room].announced = sockUser[last'.sock])]_vars

\* C40: in the users/waitingQueue server, after the skip of an initialised user that
\* user has no roomId and is not in waitingQueue.
C40_SkipLeavesIdle ==
    [][(/\ last'.op = "skip"
        /\ regime = "users"
        /\ sockUser[last'.sock] \in DOMAIN users)
       => LET u == sockUser[last'.sock]
          IN /\ users'[u].roomId = Null
             /\ u \notin SeqElems(waitingQueue')]_vars

=============================================================================
